---- MODULE Spec2Model ----
(***************************************************************************)
(* A model of xcanalyzer's project object graph (xcodeproject/models.py)  *)
(* and of the reports computed from it (xcodeproject/generators.py).      *)
(*                                                                         *)
(* Python strings are sequences of one-character strings, so that         *)
(* endswith, startswith, split('/') and slicing are computed, not          *)
(* postulated.  A Python set of XcFile / XcTarget objects is a set of     *)
(* records in which membership, union and difference go by __eq__ (the    *)
(* path, resp. kind and name).  The order in which a Python set is        *)
(* iterated is fixed per process and unknown: it is the variable scan.    *)
(***************************************************************************)
EXTENDS Integers, Sequences, FiniteSets, TLC

VARIABLES
    xc_project,   \* the XcProject: targets, groups, root_files, and the XcGroup objects
    scan,         \* this process's iteration order of hashed sets (files, targets, kinds)
    pc,           \* "idle", or the traversal loop that is running
    frame,        \* the running traversal's locals: groups (work list), results, filter_mode
    result,       \* the last finished query: its name, its argument, what it returned
    run           \* a find-dead-types run: its argument app, the calls that have
                  \* returned, the lines printed

vars == <<xc_project, scan, pc, frame, result, run>>

(***************************************************************************)
(* Bounds of the model.                                                    *)
(***************************************************************************)
MaxDecls == 2      \* declarations in the Swift file under study
MaxOther == 1      \* declarations in each other parsed file
MaxBuckets == 3    \* buckets, over all targets, that hold one file
MaxResults == 8    \* length of a traversal's result list beyond which it is not followed

(***************************************************************************)
(* Python values.                                                          *)
(***************************************************************************)
None == {}
Some(v) == {v}
IsNone(o) == o = {}
Val(o) == CHOOSE v \in o : TRUE

Ok(v) == [raised |-> FALSE, value |-> v]
TypeError == [raised |-> TRUE, value |-> "TypeError"]
ValueError == [raised |-> TRUE, value |-> "ValueError"]

Range(s) == {s[i] : i \in 1..Len(s)}
BSeq(S, n) == UNION {[1..k -> S] : k \in 0..n}
Reverse(s) == [i \in 1..Len(s) |-> s[Len(s) + 1 - i]]

RECURSIVE Flatten(_)
Flatten(ss) == IF ss = <<>> THEN <<>> ELSE Head(ss) \o Flatten(Tail(ss))

\* str.endswith / str.startswith
EndsWith(s, suffix) ==
    /\ Len(s) >= Len(suffix)
    /\ SubSeq(s, Len(s) - Len(suffix) + 1, Len(s)) = suffix
StartsWith(s, prefix) ==
    /\ Len(s) >= Len(prefix)
    /\ SubSeq(s, 1, Len(prefix)) = prefix

\* s.split('/')[-1]
LastSlash(s) ==
    IF \E i \in 1..Len(s) : s[i] = "/"
    THEN CHOOSE i \in 1..Len(s) : s[i] = "/" /\ \A j \in (i+1)..Len(s) : s[j] # "/"
    ELSE 0
Basename(s) == SubSeq(s, LastSlash(s) + 1, Len(s))

\* s.split('/')
RECURSIVE Split(_)
Split(s) ==
    IF \A i \in 1..Len(s) : s[i] # "/" THEN <<s>>
    ELSE LET i == CHOOSE k \in 1..Len(s) : s[k] = "/" /\ \A j \in 1..(k - 1) : s[j] # "/"
         IN  <<SubSeq(s, 1, i - 1)>> \o Split(SubSeq(s, i + 1, Len(s)))

\* s[:-2]
DropLast2(s) == SubSeq(s, 1, Len(s) - 2)

\* code points of the characters the model's strings use
Code ==
    [c \in {".", "/", "A", "B", "F", "G", "H", "I", "K", "L", "U", "a", "b", "d", "e",
            "f", "g", "h", "i", "l", "m", "n", "o", "p", "r", "s", "t", "w", "x"} |->
        CASE c = "." -> 46 [] c = "/" -> 47
          [] c = "A" -> 65 [] c = "B" -> 66 [] c = "F" -> 70 [] c = "G" -> 71
          [] c = "H" -> 72 [] c = "I" -> 73 [] c = "K" -> 75 [] c = "L" -> 76
          [] c = "U" -> 85
          [] c = "a" -> 97 [] c = "b" -> 98 [] c = "d" -> 100 [] c = "e" -> 101
          [] c = "f" -> 102 [] c = "g" -> 103 [] c = "h" -> 104 [] c = "i" -> 105
          [] c = "l" -> 108 [] c = "m" -> 109 [] c = "n" -> 110 [] c = "o" -> 111
          [] c = "p" -> 112 [] c = "r" -> 114 [] c = "s" -> 115 [] c = "t" -> 116
          [] c = "w" -> 119 [] c = "x" -> 120]

\* a < b on Python strings
RECURSIVE StrLt(_, _)
StrLt(a, b) ==
    IF b = <<>> THEN FALSE
    ELSE IF a = <<>> THEN TRUE
    ELSE IF Code[Head(a)] # Code[Head(b)] THEN Code[Head(a)] < Code[Head(b)]
    ELSE StrLt(Tail(a), Tail(b))

\* sorted(xs) / xs.sort() on a list of strings (stable)
RECURSIVE InsertStr(_, _)
InsertStr(x, sorted) ==
    IF sorted = <<>> THEN <<x>>
    ELSE IF StrLt(x, Head(sorted)) THEN <<x>> \o sorted
    ELSE <<Head(sorted)>> \o InsertStr(x, Tail(sorted))
RECURSIVE SortStr(_)
SortStr(xs) ==
    IF xs = <<>> THEN <<>>
    ELSE InsertStr(xs[Len(xs)], SortStr(SubSeq(xs, 1, Len(xs) - 1)))

\* xs = list(S); xs.sort() on a set of strings
RECURSIVE SortedList(_)
SortedList(S) ==
    IF S = {} THEN <<>>
    ELSE LET least == CHOOSE x \in S : \A y \in S \ {x} : StrLt(x, y)
         IN  <<least>> \o SortedList(S \ {least})

(***************************************************************************)
(* XcFile: identity is the path (__eq__, __hash__).                        *)
(***************************************************************************)
XcFile(filepath) == [filepath |-> filepath, swift_types |-> None, objc_types |-> None]

\* __eq__ (mutant: the default equality of objects, by identity)
XcFile_eq_by_object(self, other) == self = other
XcFile_eq(self, other) == self.filepath = other.filepath

FileIn(f, S) == \E g \in S : XcFile_eq(g, f)
\* A |= B, A | B: an element of B equal to one of A is not added
FileUnion(A, B) == A \cup {b \in B : ~FileIn(b, A)}
\* A - B
FileDiff(A, B) == {a \in A : ~FileIn(a, B)}
\* for f in S: in this process's iteration order
FileIter(S, order) ==
    LET ks == SelectSeq(order, LAMBDA k : \E f \in S : f.filepath = k)
    IN  [i \in 1..Len(ks) |-> CHOOSE f \in S : f.filepath = ks[i]]

Paths(S) == {f.filepath : f \in S}
FileIterPaths(S, order) == [i \in 1..Len(FileIter(S, order)) |-> FileIter(S, order)[i].filepath]

(***************************************************************************)
(* XcTarget: identity is (type, name).  Edge sets hold the keys of the    *)
(* targets they refer to.                                                  *)
(***************************************************************************)
TEST == "test"
UI_TEST == "ui_test"
FRAMEWORK == "framework"
APP_EXTENSION == "app_extension"
WATCH_EXTENSION == "watch_extension"
APPLICATION == "application"
WATCH_APPLICATION == "watch_application"
OTHER_TYPE == "other"
AVAILABLES ==
    <<FRAMEWORK, APP_EXTENSION, WATCH_EXTENSION, WATCH_APPLICATION,
      APPLICATION, TEST, UI_TEST, OTHER_TYPE>>

XcTarget(name, target_type, dependencies, linked_frameworks, embed_frameworks, source_files, resource_files, header_files, linked_files) ==
    [name |-> name, type |-> target_type,
     dependencies |-> dependencies,
     linked_frameworks |-> linked_frameworks,
     embed_frameworks |-> embed_frameworks,
     source_files |-> source_files, resource_files |-> resource_files,
     header_files |-> header_files, linked_files |-> linked_files]

TargetKey(t) == <<t.type, t.name>>
TargetEq(t, u) == ~(t.type # u.type) /\ ~(t.name # u.name)

\* for t in targets: in this process's iteration order
TargetIter(S, order) ==
    LET ks == SelectSeq(order, LAMBDA k : \E t \in S : TargetKey(t) = k)
    IN  [i \in 1..Len(ks) |-> CHOOSE t \in S : TargetKey(t) = ks[i]]

\* sorted(ts, key=lambda t: t.name): stable
RECURSIVE InsertByName(_, _)
InsertByName(t, sorted) ==
    IF sorted = <<>> THEN <<t>>
    ELSE IF StrLt(t.name, Head(sorted).name) THEN <<t>> \o sorted
    ELSE <<Head(sorted)>> \o InsertByName(t, Tail(sorted))
RECURSIVE SortedByName(_)
SortedByName(ts) ==
    IF ts = <<>> THEN <<>>
    ELSE InsertByName(ts[Len(ts)], SortedByName(SubSeq(ts, 1, Len(ts) - 1)))

XcTarget_files(t) ==
    FileUnion(FileUnion(FileUnion(t.source_files, t.resource_files),
                        t.header_files), t.linked_files)
XcTarget_swift_files(t) == {f \in t.source_files : EndsWith(f.filepath, <<".", "s", "w", "i", "f", "t">>)}
XcTarget_h_files(t) == {f \in t.header_files : EndsWith(f.filepath, <<".", "h">>)}
XcTarget_m_files(t) == {f \in t.source_files : EndsWith(f.filepath, <<".", "m">>)}
XcTarget_objc_files(t) == FileUnion(XcTarget_h_files(t), XcTarget_m_files(t))

(***************************************************************************)
(* XcGroup objects live in xc_project.objects, addressed by identity; a   *)
(* group's child list holds identities.                                   *)
(***************************************************************************)
XcGroup(group_path, filepath, is_project_relative, groups, files, is_variant) ==
    [group_path |-> group_path, filepath |-> filepath,
     is_project_relative |-> is_project_relative,
     groups |-> groups, files |-> files, is_variant |-> is_variant]

XcGroup_eq(self, other) == self.group_path = other.group_path

has_folder(g) == g.group_path = g.filepath

(***************************************************************************)
(* XcProject.                                                              *)
(***************************************************************************)
XcProject(targets, groups, files, objects) ==
    [targets |-> targets, groups |-> groups, root_files |-> files, objects |-> objects]

\* o is the iteration order of the process's hashed sets: o.files orders
\* paths, o.targets orders target keys, o.kinds orders declaration kinds.
targets_sorted_by_name(self, o) == SortedByName(TargetIter(self.targets, o.targets))

RECURSIVE FileUnionAll(_)
FileUnionAll(sets) ==
    IF sets = <<>> THEN {}
    ELSE FileUnion(FileUnionAll(SubSeq(sets, 1, Len(sets) - 1)), sets[Len(sets)])

target_files(self, o) ==
    LET ts == TargetIter(self.targets, o.targets)
    IN  FileUnionAll([i \in 1..Len(ts) |-> XcTarget_files(ts[i])])

\* The locals of a traversal of the group tree: st.groups is the work list,
\* st.results what is collected; st.self is the project.
\* groups = self.groups.copy(): the work list is a new list
group_files_enter(self) ==
    [self |-> self, groups |-> self.groups, results |-> {}, filter_mode |-> "None"]

\* One turn of "while groups:" in group_files
\* (mutant: without .copy() the work list is self.groups itself)
group_files_step_no_copy(st) ==
    LET group == st.self.objects[st.groups[Len(st.groups)]]
        popped == SubSeq(st.groups, 1, Len(st.groups) - 1)
    IN  [st EXCEPT !.results = FileUnion(st.results, group.files),
                   !.groups = popped \o group.groups,
                   !.self.groups = popped \o group.groups]
group_files_step(st) ==
    LET group == st.self.objects[st.groups[Len(st.groups)]]
        popped == SubSeq(st.groups, 1, Len(st.groups) - 1)
    IN  [st EXCEPT !.results = FileUnion(st.results, group.files),
                   !.groups = popped \o group.groups]

nonregular_files_enter(self) ==
    [self |-> self, groups |-> self.groups, results |-> <<>>, filter_mode |-> "None"]

\* One turn of "while groups:" in nonregular_files; results holds the pairs
\* (group_file, group), the group by identity
\* (mutant: a variant group is walked like any other)
nonregular_files_step_variant_walked(st, o) ==
    LET id == st.groups[Len(st.groups)]
        group == st.self.objects[id]
        popped == SubSeq(st.groups, 1, Len(st.groups) - 1)
        found == SelectSeq(FileIter(group.files, o.files),
                           LAMBDA f : ~StartsWith(f.filepath, group.group_path))
    IN  [st EXCEPT
            !.results = st.results \o [i \in 1..Len(found) |-> <<found[i], id>>],
            !.groups = popped \o group.groups]
nonregular_files_step(st, o) ==
    LET id == st.groups[Len(st.groups)]
        group == st.self.objects[id]
        popped == SubSeq(st.groups, 1, Len(st.groups) - 1)
        group_files_list == FileIter(group.files, o.files)
        found == SelectSeq(group_files_list,
                           LAMBDA f : ~StartsWith(f.filepath, group.group_path))
    IN  IF group.is_variant THEN [st EXCEPT !.groups = popped]
        ELSE [st EXCEPT
                !.results = st.results \o [i \in 1..Len(found) |-> <<found[i], id>>],
                !.groups = popped \o group.groups]

groups_filtered_enter(self, filter_mode) ==
    [self |-> self, groups |-> self.groups, results |-> <<>>, filter_mode |-> filter_mode]

\* whether groups_filtered keeps current_group under filter_mode
groups_filter(current_group, filter_mode) ==
    IF filter_mode = "empty"
    THEN current_group.groups = <<>> /\ current_group.files = {}
    ELSE IF filter_mode = "project_relative" THEN current_group.is_project_relative
    ELSE IF filter_mode = "without_folder"
    THEN ~current_group.is_variant /\ ~has_folder(current_group)
    ELSE IF filter_mode = "variant" THEN current_group.is_variant
    ELSE TRUE

\* One turn of "while remaining_groups:" in groups_filtered; results holds the
\* groups by identity
groups_filtered_step(st) ==
    LET id == st.groups[Len(st.groups)]
        current_group == st.self.objects[id]
        popped == SubSeq(st.groups, 1, Len(st.groups) - 1)
    IN  [st EXCEPT
            !.results = IF groups_filter(current_group, st.filter_mode)
                        THEN Append(st.results, id) ELSE st.results,
            !.groups = popped \o current_group.groups]

RECURSIVE group_files_loop(_)
group_files_loop(st) ==
    IF st.groups = <<>> THEN st ELSE group_files_loop(group_files_step(st))

group_files(self) == group_files_loop(group_files_enter(self)).results

RECURSIVE nonregular_files_loop(_, _)
nonregular_files_loop(st, o) ==
    IF st.groups = <<>> THEN st ELSE nonregular_files_loop(nonregular_files_step(st, o), o)
nonregular_files(self, o) == nonregular_files_loop(nonregular_files_enter(self), o).results

RECURSIVE groups_filtered_loop(_)
groups_filtered_loop(st) ==
    IF st.groups = <<>> THEN st ELSE groups_filtered_loop(groups_filtered_step(st))
groups_filtered(self, filter_mode) ==
    groups_filtered_loop(groups_filtered_enter(self, filter_mode)).results

files(self) == FileUnion(self.root_files, group_files(self))

\* (mutant: the files of the groups are forgotten)
target_less_files_root_only(self, o) == FileDiff(self.root_files, target_files(self, o))
target_less_files(self, o) == FileDiff(files(self), target_files(self, o))

target_less_h_files(self, o) ==
    {f \in target_less_files(self, o) : EndsWith(f.filepath, <<".", "h">>)}

\* (mutant: the target-less headers are left out)
objc_files_of_targets_only(self, o) ==
    LET ts == targets_sorted_by_name(self, o)
    IN  FileUnionAll([i \in 1..Len(ts) |-> XcTarget_objc_files(ts[i])])
objc_files(self, o) ==
    LET ts == targets_sorted_by_name(self, o)
    IN  FileUnion(FileUnionAll([i \in 1..Len(ts) |-> XcTarget_objc_files(ts[i])]),
                  target_less_h_files(self, o))

swift_files(self, o) ==
    LET ts == targets_sorted_by_name(self, o)
    IN  FileUnionAll([i \in 1..Len(ts) |-> XcTarget_swift_files(ts[i])])

(***************************************************************************)
(* Declarations (language/models.py): a declaration object has a name and *)
(* a type_identifier; file and pos (its rank in its file) stand for the   *)
(* object's identity.                                                      *)
(***************************************************************************)
EXTENSION == "extension"
SwiftTypeType_ALL == {"class", "struct", "enum", "protocol", EXTENSION}
ObjcTypeType_ALL == {"class", "category", "enum", "constant", "protocol"}

Declaration(name, type_identifier, file, pos) ==
    [name |-> name, type_identifier |-> type_identifier, file |-> file, pos |-> pos]

Names(ts) == [i \in 1..Len(ts) |-> ts[i].name]

\* XcFile.swift_types_filtered: iterating swift_types = None raises TypeError
XcFile_swift_types_filtered(f, type_not_in) ==
    IF IsNone(f.swift_types) THEN TypeError
    ELSE Ok(SelectSeq(Val(f.swift_types), LAMBDA t : t.type_identifier \notin type_not_in))

XcFile_swift_extensions(f) ==
    IF IsNone(f.swift_types) THEN TypeError
    ELSE Ok(SelectSeq(Val(f.swift_types), LAMBDA t : t.type_identifier = EXTENSION))

\* results += swift_file.swift_types, for each file in iteration order
\* (mutant: the return is inside the loop, after the first file)
swift_types_return_in_loop(self, o) ==
    LET fs == FileIter(swift_files(self, o), o.files)
    IN  IF fs = <<>> THEN Ok(<<>>)
        ELSE IF IsNone(fs[1].swift_types) THEN TypeError
        ELSE Ok(Val(fs[1].swift_types))
swift_types(self, o) ==
    LET fs == FileIter(swift_files(self, o), o.files)
    IN  IF \E i \in 1..Len(fs) : IsNone(fs[i].swift_types) THEN TypeError
        ELSE Ok(Flatten([i \in 1..Len(fs) |-> Val(fs[i].swift_types)]))

objc_types(self, o) ==
    LET fs == FileIter(objc_files(self, o), o.files)
    IN  IF \E i \in 1..Len(fs) : IsNone(fs[i].objc_types) THEN TypeError
        ELSE Ok(Flatten([i \in 1..Len(fs) |-> Val(fs[i].objc_types)]))

\* "type_not_in has priority"
\* (mutant: type_not_in is ignored)
SelectedTypes_type_in_only(type_in, type_not_in) == type_in
SelectedTypes(type_in, type_not_in) ==
    IF type_not_in # {} THEN SwiftTypeType_ALL \ type_not_in ELSE type_in

\* (mutant: flat returns from inside the loop over the kinds)
swift_types_filtered_flat_first_kind(self, o, type_in, type_not_in, flat) ==
    LET types == SelectedTypes(type_in, type_not_in)
        all == swift_types(self, o)
        grouped_results ==
            [k \in types |-> SelectSeq(all.value, LAMBDA t : t.type_identifier = k)]
        keys == SelectSeq(o.kinds, LAMBDA k : k \in types)
    IN  IF all.raised THEN all
        ELSE IF flat THEN Ok(IF keys = <<>> THEN <<>> ELSE grouped_results[keys[1]])
        ELSE Ok(grouped_results)
swift_types_filtered(self, o, type_in, type_not_in, flat) ==
    LET types == SelectedTypes(type_in, type_not_in)
        all == swift_types(self, o)
        grouped_results ==
            [k \in types |-> SelectSeq(all.value, LAMBDA t : t.type_identifier = k)]
        keys == SelectSeq(o.kinds, LAMBDA k : k \in types)
    IN  IF all.raised THEN all
        ELSE IF flat THEN Ok(Flatten([i \in 1..Len(keys) |-> grouped_results[keys[i]]]))
        ELSE Ok(grouped_results)

\* The body of "for swift_file in self.swift_files": the file's extensions,
\* split by whether the file holds a non-extension declaration of that name.
\* (mutant: the else is lost, every extension goes on to the project rules)
scope_file_extensions_no_else(swift_file) ==
    LET names == Names(XcFile_swift_types_filtered(swift_file, {EXTENSION}).value)
        exts == XcFile_swift_extensions(swift_file).value
    IN  [file_scoped |-> SelectSeq(exts, LAMBDA e : e.name \in Range(names)),
         remaining |-> exts]
scope_file_extensions(swift_file) ==
    LET names == Names(XcFile_swift_types_filtered(swift_file, {EXTENSION}).value)
        exts == XcFile_swift_extensions(swift_file).value
    IN  [file_scoped |-> SelectSeq(exts, LAMBDA e : e.name \in Range(names)),
         remaining |-> SelectSeq(exts, LAMBDA e : e.name \notin Range(names))]

\* The body of "while remaining_extensions": the scope of one extension
\* (mutant: the Swift names are looked up before the Objective-C names)
scope_remaining_extension_swift_first(extension, objc_type_names, swift_type_names) ==
    IF extension.name \in Range(swift_type_names) THEN "PROJECT_SWIFT"
    ELSE IF extension.name \in Range(objc_type_names) THEN "PROJECT_OBJC"
    ELSE "OUTER"
scope_remaining_extension(extension, objc_type_names, swift_type_names) ==
    IF extension.name \in Range(objc_type_names) THEN "PROJECT_OBJC"
    ELSE IF extension.name \in Range(swift_type_names) THEN "PROJECT_SWIFT"
    ELSE "OUTER"

swift_extensions_grouped_by_scope(self, o) ==
    LET fs == FileIter(swift_files(self, o), o.files)
        file_scoped_extensions ==
            Flatten([i \in 1..Len(fs) |-> scope_file_extensions(fs[i]).file_scoped])
        remaining_extensions ==
            Flatten([i \in 1..Len(fs) |-> scope_file_extensions(fs[i]).remaining])
        objc == objc_types(self, o)
        swift == swift_types_filtered(self, o, SwiftTypeType_ALL, {EXTENSION}, TRUE)
        \* remaining_extensions.reverse(), then pop() takes the last: the
        \* extensions are visited first to last
        reversed == Reverse(remaining_extensions)
        visited == [i \in 1..Len(reversed) |-> reversed[Len(reversed) + 1 - i]]
        scoped(scope) ==
            SelectSeq(visited, LAMBDA e :
                scope_remaining_extension(e, Names(objc.value), Names(swift.value)) = scope)
    IN  IF \E i \in 1..Len(fs) : IsNone(fs[i].swift_types) THEN TypeError
        ELSE IF objc.raised THEN objc
        ELSE IF swift.raised THEN swift
        ELSE Ok([FILE |-> file_scoped_extensions,
                 PROJECT_OBJC |-> scoped("PROJECT_OBJC"),
                 PROJECT_SWIFT |-> scoped("PROJECT_SWIFT"),
                 OUTER |-> scoped("OUTER")])

(***************************************************************************)
(* XcProjReporter (generators.py).  What a report prints is returned as   *)
(* the list of its lines, each line the values that are formatted.        *)
(***************************************************************************)
\* file_targets: for each file of some target, the targets whose files hold it
\* (mutant: only the source bucket of a target is looked at)
file_targets_source_only(self, target_file) ==
    {t \in self.targets : FileIn(target_file, t.source_files)}
file_targets(self, target_file) ==
    {t \in self.targets : FileIn(target_file, XcTarget_files(t))}

\* the lines of print_shared_files: (filepath, the names of its targets)
shared_files_lines(self, o) ==
    LET keys == target_files(self, o)
        filepath_targets ==
            {f \in keys : Cardinality(file_targets(self, f)) >= 2}
        filepaths == SortStr(FileIterPaths(filepath_targets, o.files))
    IN  [i \in 1..Len(filepaths) |->
            LET f == CHOOSE f \in filepath_targets : f.filepath = filepaths[i]
                targets == TargetIter(file_targets(self, f), o.targets)
            IN  [filepath |-> filepaths[i],
                 targets_display |-> [n \in 1..Len(targets) |-> targets[n].name]]]

\* The loop of print_missing_objc_files over the files, in iteration order: the
\* base names seen a second time with this extension.  (A name is looked up in
\* the names seen so far before it is added to them.)
\* (mutant: the name is added before it is looked up)
duplicate_file_names_added_first(fs, extension) ==
    {DropLast2(Basename(fs[i].filepath)) : i \in
        {i \in 1..Len(fs) :
            /\ EndsWith(Basename(fs[i].filepath), extension)
            /\ \E j \in 1..i :
                  /\ EndsWith(Basename(fs[j].filepath), extension)
                  /\ DropLast2(Basename(fs[j].filepath)) = DropLast2(Basename(fs[i].filepath))}}
duplicate_file_names(fs, extension) ==
    {DropLast2(Basename(fs[i].filepath)) : i \in
        {i \in 1..Len(fs) :
            /\ EndsWith(Basename(fs[i].filepath), extension)
            /\ \E j \in 1..(i - 1) :
                  /\ EndsWith(Basename(fs[j].filepath), extension)
                  /\ DropLast2(Basename(fs[j].filepath)) = DropLast2(Basename(fs[i].filepath))}}

\* h_file_names / m_file_names at the end of the loop
file_names(fs, extension) ==
    {DropLast2(Basename(fs[i].filepath)) : i \in
        {i \in 1..Len(fs) : EndsWith(Basename(fs[i].filepath), extension)}}

\* print_missing_objc_files: the four sorted lists it prints and passes to the
\* summary, and the summary's total
missing_objc_files(self, o) ==
    LET fs == FileIter(objc_files(self, o), o.files)
        h_file_names == file_names(fs, <<".", "h">>)
        m_file_names == file_names(fs, <<".", "m">>)
        duplicate_h_file_names_list == SortedList(duplicate_file_names(fs, <<".", "h">>))
        duplicate_m_file_names_list == SortedList(duplicate_file_names(fs, <<".", "m">>))
        missing_h_file_names == SortedList(m_file_names \ h_file_names)
        missing_m_file_names == SortedList(h_file_names \ m_file_names)
    IN  [duplicate_h_file_names |-> duplicate_h_file_names_list,
         duplicate_m_file_names |-> duplicate_m_file_names_list,
         missing_h_file_names |-> missing_h_file_names,
         missing_m_file_names |-> missing_m_file_names,
         total_count |-> Len(duplicate_h_file_names_list) + Len(duplicate_m_file_names_list)
                         + Len(missing_h_file_names) + Len(missing_m_file_names)]

(***************************************************************************)
(* The projects the model is run on.                                       *)
(***************************************************************************)
App == <<"A", "p", "p">>
Kit == <<"K", "i", "t">>
Lib == <<"L", "i", "b">>

F_swift == <<"F", ".", "s", "w", "i", "f", "t">>
G_swift == <<"G", ".", "s", "w", "i", "f", "t">>
H_h == <<"H", ".", "h">>
d_A_h == <<"d", "/", "A", ".", "h">>
d_A_m == <<"d", "/", "A", ".", "m">>
d_B_h == <<"d", "/", "B", ".", "h">>
d_B_m == <<"d", "/", "B", ".", "m">>
e_A_m == <<"e", "/", "A", ".", "m">>
e_B_h == <<"e", "/", "B", ".", "h">>
d_Info_plist == <<"d", "/", "I", "n", "f", "o", ".", "p", "l", "i", "s", "t">>

\* every path and every target key of the model, in one order and its reverse
PathOrder ==
    <<F_swift, G_swift, H_h, d_A_h, d_A_m, d_B_h, d_B_m, e_A_m, e_B_h, d_Info_plist>>
TargetOrder ==
    <<<<APPLICATION, App>>, <<FRAMEWORK, Kit>>, <<FRAMEWORK, App>>, <<TEST, Kit>>,
      <<OTHER_TYPE, Lib>>>>
KindOrder == <<"class", "struct", "enum", "protocol", EXTENSION>>
Forward == [files |-> PathOrder, targets |-> TargetOrder, kinds |-> KindOrder]
Backward == [files |-> Reverse(PathOrder), targets |-> Reverse(TargetOrder), kinds |-> Reverse(KindOrder)]
ProcessOrders == {Forward, Backward}

NoFrame == [groups |-> <<>>, results |-> {}, filter_mode |-> "None"]
NoRun == [app |-> <<>>, calls |-> <<>>, stdout |-> <<>>]
NoResult == [query |-> "None", arg |-> "None", value |-> {}]
FilterModes == {"None", "empty", "project_relative", "without_folder", "variant"}

\* what a parser attaches to a file: the declarations it found, in order
Parsed(path, found) ==
    Some([i \in 1..Len(found) |-> Declaration(found[i][1], found[i][2], path, i)])
Attached(path, n, choices) == {None} \cup {Parsed(path, found) : found \in BSeq(choices, n)}

SwiftFound == {<<"Foo", "class">>, <<"Foo", EXTENSION>>, <<"Bar", EXTENSION>>}
ObjcFound == {<<"Foo", "class">>}

SwiftFile(path, attached) == [XcFile(path) EXCEPT !.swift_types = attached]
ObjcFile(path, attached) == [XcFile(path) EXCEPT !.objc_types = attached]

\* Projects of two targets over the Swift files F and G and the header H:
\* F is owned by App and perhaps by Kit too, G by App, by Kit or by nobody, H sits
\* in App's header bucket, or is a root file no target owns, or is absent.
InitDeclarations ==
    \E fd \in Attached(F_swift, MaxDecls, SwiftFound),
       gd \in Attached(G_swift, MaxOther, SwiftFound),
       hd \in Attached(H_h, MaxOther, ObjcFound),
       shared \in BOOLEAN, g_owner \in {"nobody", "App", "Kit"},
       h_place \in {"absent", "header", "root"} :
        LET f == SwiftFile(F_swift, fd)
            g == SwiftFile(G_swift, gd)
            h == ObjcFile(H_h, hd)
            app == XcTarget(App, APPLICATION, {}, {}, {},
                            {f} \cup (IF g_owner = "App" THEN {g} ELSE {}), {},
                            IF h_place = "header" THEN {h} ELSE {}, {})
            kit == XcTarget(Kit, FRAMEWORK, {}, {}, {},
                            (IF shared THEN {f} ELSE {}) \cup (IF g_owner = "Kit" THEN {g} ELSE {}),
                            {}, {}, {})
        IN  xc_project = XcProject({app, kit}, <<>>,
                                   IF h_place = "root" THEN {h} ELSE {}, <<>>)

\* Projects of two targets over the files d/A.m and d/B.h and one group d:
\* each file sits in at most MaxBuckets of the eight buckets of the two
\* targets (d/B.h: of the source and header buckets), and is a file of the
\* group, a root file, or in neither.
Buckets == {"source_files", "resource_files", "header_files", "linked_files"}
Slots == {App, Kit} \X Buckets
UpTo(S, n) == {T \in SUBSET S : Cardinality(T) <= n}
InitOwnership ==
    \E a_in \in UpTo(Slots, MaxBuckets),
       b_in \in UpTo({App, Kit} \X {"source_files", "header_files"}, MaxBuckets),
       a_place \in {"group", "root", "nowhere"},
       b_place \in {"group", "root", "nowhere"} :
        LET a == XcFile(d_A_m)
            b == XcFile(d_B_h)
            bucket(name, k) == (IF <<name, k>> \in a_in THEN {a} ELSE {})
                               \cup (IF <<name, k>> \in b_in THEN {b} ELSE {})
            target(name, type) ==
                XcTarget(name, type, {}, {}, {}, bucket(name, "source_files"),
                         bucket(name, "resource_files"), bucket(name, "header_files"),
                         bucket(name, "linked_files"))
            placed(place) == (IF a_place = place THEN {a} ELSE {})
                             \cup (IF b_place = place THEN {b} ELSE {})
            d == XcGroup(<<"d">>, <<"d">>, FALSE, <<>>, placed("group"), FALSE)
        IN  xc_project = XcProject({target(App, APPLICATION), target(Kit, FRAMEWORK)},
                                   <<"g1">>, placed("root"), [g \in {"g1"} |-> d])

\* Projects of one target over six Objective-C files, two of them a second .h
\* and a second .m of a base name at another path: each file is in the
\* target's bucket of its kind, or a root file no target owns, or absent.
ObjcPaths == {d_A_h, d_A_m, d_B_h, d_B_m, e_A_m, e_B_h}
InitObjcPairs ==
    \E place \in [ObjcPaths -> {"absent", "bucket", "root"}] :
        LET at(where) == {XcFile(p) : p \in {q \in ObjcPaths : place[q] = where}}
            app == XcTarget(App, APPLICATION, {}, {}, {},
                            {f \in at("bucket") : EndsWith(f.filepath, <<".", "m">>)}, {},
                            {f \in at("bucket") : EndsWith(f.filepath, <<".", "h">>)}, {})
        IN  xc_project = XcProject({app}, <<>>, at("root"), <<>>)

\* Projects in which the path F.swift is held by up to two XcFile objects, one
\* with a declaration attached and one with none found, each slot (a source and
\* a resource bucket of the first target, the source bucket of the second, the
\* group, the root files) holding one of them or nothing; the second target is
\* a framework named Kit, or a framework with the first target's name.
InitIdentity ==
    \E slot \in [{"source", "resource", "second", "group", "root"} -> {"none", "a", "b"}],
       second \in {Kit, App} :
        LET a == SwiftFile(F_swift, Parsed(F_swift, <<<<"Foo", "class">>>>))
            b == SwiftFile(F_swift, Parsed(F_swift, <<>>))
            at(k) == IF slot[k] = "a" THEN {a} ELSE IF slot[k] = "b" THEN {b} ELSE {}
            h == ObjcFile(H_h, Parsed(H_h, <<>>))
            g1 == XcGroup(<<"d">>, <<"d">>, FALSE, <<>>, at("group"), FALSE)
        IN  xc_project =
                XcProject({XcTarget(App, APPLICATION, {}, {}, {}, at("source"),
                                    at("resource"), {h}, {}),
                           XcTarget(second, FRAMEWORK, {}, {}, {}, at("second"), {}, {}, {})},
                          <<"g1">>, at("root"), [id \in {"g1"} |-> g1])

\* Projects of one target over d/A.m, d/B.h and d/Info.plist: each file is in
\* the target's bucket of its kind or in none, and is a file of the group, a
\* root file or in neither.
InitOrphans ==
    \E owned \in SUBSET {d_A_m, d_B_h, d_Info_plist},
       place \in [{d_A_m, d_B_h, d_Info_plist} -> {"group", "root", "nowhere"}] :
        LET at(where) == {XcFile(p) : p \in {q \in DOMAIN place : place[q] = where}}
            app == XcTarget(App, APPLICATION, {}, {}, {},
                            {XcFile(p) : p \in owned \cap {d_A_m}},
                            {XcFile(p) : p \in owned \cap {d_Info_plist}},
                            {XcFile(p) : p \in owned \cap {d_B_h}}, {})
            g1 == XcGroup(<<"d">>, <<"d">>, FALSE, <<>>, at("group"), FALSE)
        IN  xc_project = XcProject({app}, <<"g1">>, at("root"), [id \in {"g1"} |-> g1])

\* Projects of up to five targets without files, among them two pairs of one
\* name and different kinds; the edge sets of a target hold targets of the
\* project.
TargetKeys == Range(TargetOrder)
InitTargets ==
    \E present \in SUBSET TargetKeys,
       app_builds \in SUBSET {<<FRAMEWORK, Kit>>, <<FRAMEWORK, App>>, <<OTHER_TYPE, Lib>>},
       app_links \in {{}, {<<FRAMEWORK, Kit>>}},
       test_builds \in {{}, {<<APPLICATION, App>>}, {<<APPLICATION, App>>, <<FRAMEWORK, Kit>>}},
       kit_links \in {{}, {<<OTHER_TYPE, Lib>>}} :
        LET target(k) ==
                XcTarget(k[2], k[1],
                         (IF k = <<APPLICATION, App>> THEN app_builds
                          ELSE IF k = <<TEST, Kit>> THEN test_builds ELSE {}) \cap present,
                         (IF k = <<APPLICATION, App>> THEN app_links
                          ELSE IF k = <<FRAMEWORK, Kit>> THEN kit_links ELSE {}) \cap present,
                         (IF k = <<APPLICATION, App>> THEN app_links ELSE {}) \cap present,
                         {}, {}, {}, {})
        IN  xc_project = XcProject({target(k) : k \in present}, <<>>, {}, <<>>)

\* Projects whose groups g1 (path d), g2 (path e, project relative) and g3
\* (path x, without folder) form a tree or a graph with a shared child: g1 is
\* a top-level group, g3 may be one too, child lists point from g1 to g2 and
\* g3 and from g2 to g3.  g2 and g3 may be variant groups.  The files of a
\* group are under its path or not.  One target owns d/A.m.
Gids == {"g1", "g2", "g3"}
InitGroupTrees ==
    \E top \in {<<"g1">>, <<"g1", "g3">>},
       kids1 \in {<<>>, <<"g2">>, <<"g3">>, <<"g2", "g3">>, <<"g3", "g2">>},
       kids2 \in {<<>>, <<"g3">>},
       variants \in SUBSET {"g2", "g3"},
       files1 \in SUBSET {d_A_m, e_A_m}, files2 \in SUBSET {e_B_h},
       files3 \in SUBSET {d_B_m} :
        LET file(p) == IF p = d_A_m
                       THEN ObjcFile(p, Parsed(p, <<<<"Foo", "class">>>>))
                       ELSE XcFile(p)
            group(id) ==
                CASE id = "g1" -> XcGroup(<<"d">>, <<"d">>, FALSE, kids1,
                                          {file(p) : p \in files1}, FALSE)
                  [] id = "g2" -> XcGroup(<<"e">>, <<"e">>, TRUE, kids2,
                                          {file(p) : p \in files2}, "g2" \in variants)
                  [] id = "g3" -> XcGroup(<<"x">>, <<"d", "/", "x">>, FALSE, <<>>,
                                          {file(p) : p \in files3}, "g3" \in variants)
            app == XcTarget(App, APPLICATION, {}, {}, {}, {file(d_A_m)}, {}, {}, {})
        IN  xc_project = XcProject({app}, top, {}, [id \in Gids |-> group(id)])

\* Projects whose groups g1, g2 and g3 each have at most one child, another
\* group among them: a chain, or a graph in which a group is reachable from
\* itself through one or two other groups.
InitGroupCycles ==
    \E top \in {<<"g1">>, <<"g1", "g2">>},
       kids \in {k \in [Gids -> {<<>>} \cup {<<h>> : h \in Gids}] :
                    \A id \in Gids : k[id] # <<id>>},
       shown \in BOOLEAN :
        LET group(id) ==
                CASE id = "g1" -> XcGroup(<<"d">>, <<"d">>, FALSE, kids[id],
                                          {XcFile(d_A_m)}, FALSE)
                  [] id = "g2" -> XcGroup(<<"e">>, <<"e">>, TRUE, kids[id],
                                          IF shown THEN {XcFile(d_B_h)} ELSE {}, FALSE)
                  [] id = "g3" -> XcGroup(<<"x">>, <<"d", "/", "x">>, FALSE, kids[id],
                                          {XcFile(e_A_m)}, FALSE)
        IN  xc_project = XcProject({}, top, {}, [id \in Gids |-> group(id)])

Start ==
    /\ scan \in ProcessOrders
    /\ pc = "idle"
    /\ frame = NoFrame
    /\ result = NoResult
    /\ run = NoRun

InitOfDeclarations == InitDeclarations /\ Start
InitOfOwnership == InitOwnership /\ Start
InitOfObjcPairs == InitObjcPairs /\ Start
InitOfGroupTrees == InitGroupTrees /\ Start
InitOfIdentity == InitIdentity /\ Start
InitOfTargets == InitTargets /\ Start
InitOfOrphans == InitOrphans /\ Start
InitOfGroupCycles == InitGroupCycles /\ Start

(***************************************************************************)
(* Queries.  A query that has no loop over the group tree is one step.    *)
(***************************************************************************)
Return(query, value) ==
    /\ pc = "idle"
    /\ result' = [query |-> query, arg |-> "None", value |-> value]
    /\ UNCHANGED <<xc_project, scan, pc, frame, run>>

\* a query that reads self.files walks the group tree before it returns
ReturnWalked(query, value) ==
    /\ pc = "idle"
    /\ xc_project' = group_files_loop(group_files_enter(xc_project)).self
    /\ result' = [query |-> query, arg |-> "None", value |-> value]
    /\ UNCHANGED <<scan, pc, frame, run>>

get_target_files == Return("target_files", target_files(xc_project, scan))
get_files == ReturnWalked("files", files(xc_project))
get_target_less_files ==
    ReturnWalked("target_less_files", target_less_files(xc_project, scan))
get_objc_files == ReturnWalked("objc_files", objc_files(xc_project, scan))
get_swift_types == Return("swift_types", swift_types(xc_project, scan))
get_objc_types == ReturnWalked("objc_types", objc_types(xc_project, scan))
get_swift_extensions_grouped_by_scope ==
    ReturnWalked("swift_extensions_grouped_by_scope",
                 swift_extensions_grouped_by_scope(xc_project, scan))

print_shared_files == Return("print_shared_files", shared_files_lines(xc_project, scan))

print_missing_objc_files ==
    ReturnWalked("print_missing_objc_files", missing_objc_files(xc_project, scan))

Queries ==
    \/ print_shared_files
    \/ print_missing_objc_files
    \/ get_target_files
    \/ get_files
    \/ get_target_less_files
    \/ get_objc_files
    \/ get_swift_types
    \/ get_objc_types
    \/ get_swift_extensions_grouped_by_scope

(***************************************************************************)
(* The three loops over the group tree, one turn of the loop per step.    *)
(* A traversal that starts clears result; it sets it when it returns.     *)
(***************************************************************************)
Running == [self |-> xc_project, groups |-> frame.groups, results |-> frame.results,
            filter_mode |-> frame.filter_mode]
Locals(st) == [groups |-> st.groups, results |-> st.results, filter_mode |-> st.filter_mode]

Call(loop, st) ==
    /\ pc = "idle"
    /\ pc' = loop
    /\ frame' = Locals(st)
    /\ xc_project' = st.self
    /\ result' = NoResult
    /\ UNCHANGED <<scan, run>>

Turn(loop, st) ==
    /\ pc = loop
    /\ frame.groups # <<>>
    /\ frame' = Locals(st)
    /\ xc_project' = st.self
    /\ UNCHANGED <<scan, pc, result, run>>

Finish(loop) ==
    /\ pc = loop
    /\ frame.groups = <<>>
    /\ pc' = "idle"
    /\ result' = [query |-> loop, arg |-> frame.filter_mode, value |-> frame.results]
    /\ frame' = NoFrame
    /\ UNCHANGED <<xc_project, scan, run>>

group_files_call == Call("group_files", group_files_enter(xc_project))
group_files_turn == Turn("group_files", group_files_step(Running))
group_files_return == Finish("group_files")

nonregular_files_call == Call("nonregular_files", nonregular_files_enter(xc_project))
nonregular_files_turn ==
    /\ pc = "nonregular_files"
    /\ Len(frame.results) < MaxResults
    /\ Turn("nonregular_files", nonregular_files_step(Running, scan))
nonregular_files_return == Finish("nonregular_files")

groups_filtered_call ==
    \E filter_mode \in FilterModes :
        Call("groups_filtered", groups_filtered_enter(xc_project, filter_mode))
groups_filtered_turn ==
    /\ pc = "groups_filtered"
    /\ Len(frame.results) < MaxResults
    /\ Turn("groups_filtered", groups_filtered_step(Running))
groups_filtered_return == Finish("groups_filtered")

Traversals ==
    \/ group_files_call
    \/ group_files_turn
    \/ group_files_return
    \/ nonregular_files_call
    \/ nonregular_files_turn
    \/ nonregular_files_return
    \/ groups_filtered_call
    \/ groups_filtered_turn
    \/ groups_filtered_return

Next == Queries \/ Traversals

\* the interpreter goes on running a loop that it has entered
Fairness ==
    /\ WF_vars(group_files_turn) /\ WF_vars(group_files_return)
    /\ WF_vars(nonregular_files_turn) /\ WF_vars(nonregular_files_return)
    /\ WF_vars(groups_filtered_turn) /\ WF_vars(groups_filtered_return)

SpecDeclarations == InitOfDeclarations /\ [][Queries]_vars
SpecOwnership == InitOfOwnership /\ [][Queries]_vars
SpecObjcPairs == InitOfObjcPairs /\ [][Queries]_vars
SpecGroups == InitOfGroupTrees /\ [][Next]_vars
SpecIdentity == InitOfIdentity /\ [][Queries]_vars
SpecGroupCycles == InitOfGroupCycles /\ [][Traversals]_vars /\ Fairness

(***************************************************************************)
(* Properties.                                                             *)
(***************************************************************************)
Count(seq, x) == Cardinality({i \in 1..Len(seq) : seq[i] = x})

\* extraction attached declarations to every Swift and Objective-C file
Inventoried(self, o) ==
    /\ \A f \in swift_files(self, o) : ~IsNone(f.swift_types)
    /\ \A f \in objc_files(self, o) : ~IsNone(f.objc_types)

ExtensionsOf(f) == {t \in Range(Val(f.swift_types)) : t.type_identifier = EXTENSION}
AllExtensions(self, o) == UNION {ExtensionsOf(f) : f \in swift_files(self, o)}
Grouped == result.query = "swift_extensions_grouped_by_scope"
Scopes == {"FILE", "PROJECT_OBJC", "PROJECT_SWIFT", "OUTER"}

\* C2: with declarations attached to every file, swift_extensions_grouped_by_scope
\* returns four lists in which every extension declaration of every Swift file of
\* the project occurs once in all (one list, one occurrence), and nothing else occurs.
C2_ClassificationTotalExclusive ==
    (Grouped /\ Inventoried(xc_project, scan)) =>
        /\ ~result.value.raised
        /\ \A e \in AllExtensions(xc_project, scan) :
              Count(result.value.value.FILE, e) + Count(result.value.value.PROJECT_OBJC, e)
              + Count(result.value.value.PROJECT_SWIFT, e) + Count(result.value.value.OUTER, e) = 1
        /\ \A k \in Scopes :
              Range(result.value.value[k]) \subseteq AllExtensions(xc_project, scan)

\* C2 witness: an extension of a file that two targets own has been classified
C2_Witness ==
    /\ Grouped /\ Inventoried(xc_project, scan)
    /\ \E f \in swift_files(xc_project, scan) :
          /\ ExtensionsOf(f) # {}
          /\ \A t \in xc_project.targets : FileIn(f, t.source_files)

\* The four ordered rules of the extension scope classifier, for extension e
Declares(f, name) ==
    \E t \in Range(Val(f.swift_types)) : t.type_identifier # EXTENSION /\ t.name = name
ObjcDeclared(self, o, name) ==
    \E h \in objc_files(self, o) : \E t \in Range(Val(h.objc_types)) : t.name = name
SwiftDeclared(self, o, name) == \E g \in swift_files(self, o) : Declares(g, name)
OwningFile(self, o, e) == CHOOSE f \in swift_files(self, o) : f.filepath = e.file
ReferenceScope(self, o, e) ==
    IF Declares(OwningFile(self, o, e), e.name) THEN "FILE"
    ELSE IF ObjcDeclared(self, o, e.name) THEN "PROJECT_OBJC"
    ELSE IF SwiftDeclared(self, o, e.name) THEN "PROJECT_SWIFT"
    ELSE "OUTER"

\* C3: every extension is returned in the list of the scope the four ordered rules
\* give it: file, else Objective-C project-wide, else Swift project-wide, else outer.
C3_ScopeIsFourRuleReference ==
    (Grouped /\ Inventoried(xc_project, scan)) =>
        \A e \in AllExtensions(xc_project, scan) :
            e \in Range(result.value.value[ReferenceScope(xc_project, scan, e)])

\* C3 witness: one extension sits beside a class of its name while an Objective-C
\* declaration of that name exists; another extends a name that both languages
\* declare outside its file
C3_Witness ==
    /\ Grouped /\ Inventoried(xc_project, scan)
    /\ \E e1, e2 \in AllExtensions(xc_project, scan) :
          /\ Declares(OwningFile(xc_project, scan, e1), e1.name)
          /\ ObjcDeclared(xc_project, scan, e1.name)
          /\ e1 \in Range(result.value.value.FILE)
          /\ ~Declares(OwningFile(xc_project, scan, e2), e2.name)
          /\ ObjcDeclared(xc_project, scan, e2.name)
          /\ SwiftDeclared(xc_project, scan, e2.name)
          /\ e2 \in Range(result.value.value.PROJECT_OBJC)

\* the project with the file of this path taken out of every bucket, group and
\* the root files: the manifest of the scenario's second run
WithoutFile(self, path) ==
    LET keep(S) == {f \in S : f.filepath # path}
    IN  [self EXCEPT
            !.targets = {[t EXCEPT !.source_files = keep(@), !.resource_files = keep(@),
                                   !.header_files = keep(@), !.linked_files = keep(@)]
                         : t \in self.targets},
            !.root_files = keep(@),
            !.objects = [g \in DOMAIN @ |-> [@[g] EXCEPT !.files = keep(@)]]]

\* a target owns both the file of extension e and another file g that declares
\* the extended type, which nothing else declares
C4_Scenario(e, g) ==
    /\ Grouped /\ Inventoried(xc_project, scan)
    /\ e \in AllExtensions(xc_project, scan)
    /\ g \in swift_files(xc_project, scan)
    /\ g.filepath # e.file
    /\ \E t \in xc_project.targets :
          FileIn(g, t.source_files) /\ FileIn(OwningFile(xc_project, scan, e), t.source_files)
    /\ Declares(g, e.name)
    /\ \A f \in swift_files(xc_project, scan) : Declares(f, e.name) => f = g
    /\ ~ObjcDeclared(xc_project, scan, e.name)

\* C4: in the scenario the extension is returned as PROJECT_SWIFT, and grouping the
\* project without the declaring file returns the same extension as OUTER.
C4_RemovedDeclarationReclassifiesOuter ==
    \A e \in (IF Grouped /\ Inventoried(xc_project, scan)
              THEN AllExtensions(xc_project, scan) ELSE {}) :
        \A g \in swift_files(xc_project, scan) :
            C4_Scenario(e, g) =>
                LET again == swift_extensions_grouped_by_scope(
                                 WithoutFile(xc_project, g.filepath), scan)
                IN  /\ e \in Range(result.value.value.PROJECT_SWIFT)
                    /\ ~again.raised
                    /\ e \in Range(again.value.OUTER)
                    /\ \A k \in Scopes \ {"OUTER"} : e \notin Range(again.value[k])

\* C4 witness: the scenario has been classified
C4_Witness ==
    /\ Grouped /\ Inventoried(xc_project, scan)
    /\ \E e \in AllExtensions(xc_project, scan) :
          \E g \in swift_files(xc_project, scan) : C4_Scenario(e, g)

Inventories == {"swift_types", "objc_types", "swift_extensions_grouped_by_scope"}

\* C8: swift_types, objc_types and swift_extensions_grouped_by_scope return a result,
\* built from the declarations of the files that have some, also when a file of the
\* project was skipped by extraction and still has swift_types / objc_types = None.
C8_SkippedFileNotFatal ==
    result.query \in Inventories => ~result.value.raised

Perms(S) == {p \in [1..Cardinality(S) -> S] : \A x \in S : \E i \in DOMAIN p : p[i] = x}
\* every order in which the project's files and targets can be iterated
AllOrders ==
    {[files |-> pf, targets |-> pt, kinds |-> pk] :
        pf \in Perms(Paths(files(xc_project)) \cup Paths(target_files(xc_project, scan))),
        pt \in Perms({TargetKey(t) : t \in xc_project.targets}),
        pk \in {KindOrder, Reverse(KindOrder)}}

ObjcNameIndex(self, o) == Range(Names(objc_types(self, o).value))
SwiftNameIndex(self, o) ==
    Range(Names(swift_types_filtered(self, o, SwiftTypeType_ALL, {EXTENSION}, TRUE).value))

\* C9: for one inventory, whatever the order in which files and targets are iterated,
\* each of the four scopes holds the same set of extensions, and the Objective-C and
\* the non-extension Swift name indexes are the same sets.
C9_ScanOrderIndependent ==
    (Grouped /\ Inventoried(xc_project, scan)) =>
        \A o \in AllOrders :
            LET other == swift_extensions_grouped_by_scope(xc_project, o)
            IN  /\ ~other.raised
                /\ \A k \in Scopes : Range(other.value[k]) = Range(result.value.value[k])
                /\ ObjcNameIndex(xc_project, o) = ObjcNameIndex(xc_project, scan)
                /\ SwiftNameIndex(xc_project, o) = SwiftNameIndex(xc_project, scan)

\* C9 witness: two Swift files with declarations and an Objective-C file have been
\* classified, with an extension in a project scope
C9_Witness ==
    /\ Grouped /\ Inventoried(xc_project, scan)
    /\ Cardinality(swift_files(xc_project, scan)) >= 2
    /\ \A f \in swift_files(xc_project, scan) : Val(f.swift_types) # <<>>
    /\ ObjcNameIndex(xc_project, scan) # {}
    /\ result.value.value.PROJECT_OBJC # <<>>


\* C1 as claimed: target_files and target_less_files are disjoint, their union is
\* files, and every file of target_files is a file of files.
C1_PartitionForEveryProject ==
    result.query = "target_less_files" =>
        /\ Paths(result.value) \cap Paths(target_files(xc_project, scan)) = {}
        /\ Paths(result.value) \cup Paths(target_files(xc_project, scan)) = Paths(files(xc_project))
        /\ Paths(target_files(xc_project, scan)) \subseteq Paths(files(xc_project))

\* C1 as amended: target_files and target_less_files are disjoint and every file of
\* files is in exactly one of them; target_less_files holds files of files only;
\* their union is files exactly when every file a target owns is a file of files.
C1_PartitionOfProjectFiles ==
    result.query = "target_less_files" =>
        LET less == Paths(result.value)
            owned == Paths(target_files(xc_project, scan))
            all == Paths(files(xc_project))
        IN  /\ less \cap owned = {}
            /\ less \subseteq all
            /\ \A p \in all : (p \in less) # (p \in owned)
            /\ (less \cup owned = all) <=> (owned \subseteq all)

\* C1 witness: target_less_files has run on a project with a file of a group that
\* two targets own and a file that no target owns
C1_Witness ==
    /\ result.query = "target_less_files"
    /\ result.value # {}
    /\ \E p \in Paths(group_files(xc_project)) :
          \A t \in xc_project.targets : p \in Paths(XcTarget_files(t))

Owners(self, path) == {t \in self.targets : \E k \in Buckets : path \in Paths(t[k])}
Ascending(paths) == \A i, j \in 1..Len(paths) : i < j => StrLt(paths[i], paths[j])

\* C7: print_shared_files prints one line for each file that is in a bucket of two or
\* more targets and for no other file, in ascending path order, each line with the
\* names of exactly the targets that own the file.
C7_SharedFilesOwnedByTwoTargets ==
    result.query = "print_shared_files" =>
        LET lines == result.value
            printed == [i \in 1..Len(lines) |-> lines[i].filepath]
        IN  /\ \A p \in Range(PathOrder) :
                  (p \in Range(printed)) <=> (Cardinality(Owners(xc_project, p)) >= 2)
            /\ \A p \in Range(printed) : Count(printed, p) = 1
            /\ Ascending(printed)
            /\ \A i \in 1..Len(lines) :
                  /\ Range(lines[i].targets_display)
                        = {t.name : t \in Owners(xc_project, printed[i])}
                  /\ Len(lines[i].targets_display)
                        = Cardinality(Owners(xc_project, printed[i]))

\* C7 witness: two shared files have been printed, one of them held by several
\* buckets of one of its targets, in a run that iterates sets in the reverse order
C7_Witness ==
    /\ result.query = "print_shared_files"
    /\ Len(result.value) = 2
    /\ scan = Backward
    /\ \E t \in xc_project.targets :
          \E k1, k2 \in Buckets :
              k1 # k2 /\ Paths(t[k1]) \cap Paths(t[k2]) # {}

WithBase(self, o, base, extension) ==
    {p \in Paths(objc_files(self, o)) :
        EndsWith(p, extension) /\ Basename(p) = base \o extension}
Bases == {<<"A">>, <<"B">>}

\* C6: over the project's Objective-C files, print_missing_objc_files flags a base
\* name as a duplicate .h (.m) name exactly when two or more paths have that name
\* and extension, as a missing .h exactly when some .m has the name and no .h has,
\* and as a missing .m symmetrically; each list is sorted without repetition and
\* the total is the sum of their lengths.  For {A.h, A.m, B.h, B.m, a second B.h}
\* the lists are [B], [], [], [] and the total is 1.
C6_DuplicateAndMissingPairs ==
    result.query = "print_missing_objc_files" =>
        LET r == result.value
            n(base, extension) == Cardinality(WithBase(xc_project, scan, base, extension))
        IN  /\ \A b \in Bases :
                  /\ (b \in Range(r.duplicate_h_file_names)) <=> (n(b, <<".", "h">>) >= 2)
                  /\ (b \in Range(r.duplicate_m_file_names)) <=> (n(b, <<".", "m">>) >= 2)
                  /\ (b \in Range(r.missing_h_file_names))
                        <=> (n(b, <<".", "m">>) >= 1 /\ n(b, <<".", "h">>) = 0)
                  /\ (b \in Range(r.missing_m_file_names))
                        <=> (n(b, <<".", "h">>) >= 1 /\ n(b, <<".", "m">>) = 0)
            /\ \A list \in {r.duplicate_h_file_names, r.duplicate_m_file_names,
                            r.missing_h_file_names, r.missing_m_file_names} :
                  Range(list) \subseteq Bases /\ Ascending(list)
            /\ r.total_count = Len(r.duplicate_h_file_names) + Len(r.duplicate_m_file_names)
                               + Len(r.missing_h_file_names) + Len(r.missing_m_file_names)
            /\ Paths(objc_files(xc_project, scan)) = {d_A_h, d_A_m, d_B_h, d_B_m, e_B_h} =>
                  /\ r.duplicate_h_file_names = << <<"B">> >>
                  /\ r.duplicate_m_file_names = <<>>
                  /\ r.missing_h_file_names = <<>>
                  /\ r.missing_m_file_names = <<>>
                  /\ r.total_count = 1

\* C6 witness: the report has run on {A.h, A.m, B.h, B.m, a second B.h}, the files
\* iterated in the reverse order
C6_Witness ==
    /\ result.query = "print_missing_objc_files"
    /\ Paths(objc_files(xc_project, scan)) = {d_A_h, d_A_m, d_B_h, d_B_m, e_B_h}
    /\ scan = Backward

(***************************************************************************)
(* The traversals of the group tree.                                       *)
(***************************************************************************)
\* C5: a traversal of the group tree that has been entered returns, also when a
\* group is reachable from itself through child-group links.
C5_TraversalReturnsOnCycle == (pc = "group_files") ~> (pc = "idle")

\* what the claim names of the graph: the top-level group list, every group's
\* child list and file set, every target's four buckets; a file's declarations
\* are part of the file
Graph(p) ==
    [groups |-> p.groups,
     children |-> [id \in DOMAIN p.objects |-> p.objects[id].groups],
     files |-> [id \in DOMAIN p.objects |-> p.objects[id].files],
     buckets |-> {<<t.name, t.source_files, t.resource_files, t.header_files,
                    t.linked_files>> : t \in p.targets}]

\* the query that returned result, asked again now
Again ==
    CASE result.query = "files" -> files(xc_project)
      [] result.query = "group_files" -> group_files(xc_project)
      [] result.query = "nonregular_files" -> nonregular_files(xc_project, scan)
      [] result.query = "groups_filtered" -> groups_filtered(xc_project, result.arg)
      [] result.query = "target_files" -> target_files(xc_project, scan)
      [] result.query = "target_less_files" -> target_less_files(xc_project, scan)
      [] result.query = "objc_files" -> objc_files(xc_project, scan)
      [] result.query = "swift_extensions_grouped_by_scope" ->
            swift_extensions_grouped_by_scope(xc_project, scan)
      [] OTHER -> result.value

\* C10: no step of a query changes the top-level group list, a group's child list
\* or file set, a target's bucket or a file's declarations, and the query that
\* returned last returns the same result when it is repeated.
C10_GraphReadOnlyResultsRepeat ==
    /\ [][Graph(xc_project') = Graph(xc_project)]_vars
    /\ [](result.value = Again)

\* C10 witness: groups_filtered has returned g1, its child g2 and the group g3 that
\* is both a top-level group and a child of g1 and g2, visited three times
C10_Witness ==
    /\ pc = "idle"
    /\ result.query = "groups_filtered"
    /\ result.arg = "None"
    /\ xc_project.groups = <<"g1", "g3">>
    /\ Len(result.value) = 5
    /\ xc_project.objects["g2"].files # {}

(***************************************************************************)
(* swift_types_filtered with its arguments.                                *)
(***************************************************************************)
KindChoices == {SwiftTypeType_ALL, {}, {"class"}, {"struct", EXTENSION}}

get_swift_types_filtered ==
    /\ pc = "idle"
    /\ \E type_in \in KindChoices \ {{}}, type_not_in \in KindChoices \ {SwiftTypeType_ALL},
          flat \in BOOLEAN :
        result' = [query |-> "swift_types_filtered",
                   arg |-> [type_in |-> type_in, type_not_in |-> type_not_in, flat |-> flat],
                   value |-> swift_types_filtered(xc_project, scan, type_in, type_not_in, flat)]
    /\ UNCHANGED <<xc_project, scan, pc, frame, run>>

SwiftTypeQueries ==
    \/ get_swift_types
    \/ get_swift_types_filtered

SpecSwiftTypes == InitOfDeclarations /\ [][SwiftTypeQueries]_vars

(***************************************************************************)
(* Orphan files (XcProjReporter.print_orphan_files).  folder_filepaths is *)
(* what the walk of the project's folder found on disk.                    *)
(***************************************************************************)
Info_plist == <<"I", "n", "f", "o", ".", "p", "l", "i", "s", "t">>

\* the filters of mode 'target' on one target-less file
\* (mutant: the headers are not skipped)
target_mode_keeps_headers(filepath, ignored_dirpaths, ignored_dirs) ==
    /\ ~EndsWith(filepath, Info_plist)
    /\ ~\E ignored_dirpath \in ignored_dirpaths : StartsWith(filepath, ignored_dirpath)
    /\ LET parts == Split(filepath)
           folder_parts == SubSeq(parts, 1, Len(parts) - 1)
       IN  ignored_dirs \cap Range(folder_parts) = {}
target_mode_keeps(filepath, ignored_dirpaths, ignored_dirs) ==
    /\ ~EndsWith(filepath, Info_plist)
    /\ ~EndsWith(filepath, <<".", "h">>)
    /\ ~\E ignored_dirpath \in ignored_dirpaths : StartsWith(filepath, ignored_dirpath)
    /\ LET parts == Split(filepath)
           folder_parts == SubSeq(parts, 1, Len(parts) - 1)
       IN  ignored_dirs \cap Range(folder_parts) = {}

plist_or_header(filepath) ==
    ~(~EndsWith(filepath, Info_plist) /\ ~EndsWith(filepath, <<".", "h">>))

\* the lines print_orphan_files prints, or ValueError
orphan_filepaths(self, o, folder_filepaths, ignored_dirpaths, ignored_dirs, mode) ==
    IF mode = "all"
    THEN Ok(SortedList(folder_filepaths \ Paths(target_files(self, o))))
    ELSE IF mode = "project"
    THEN Ok(SortedList(folder_filepaths \ Paths(files(self))))
    ELSE IF mode = "target"
    THEN LET target_less == FileDiff(files(self), target_files(self, o))
         IN  Ok(SortStr(SelectSeq(FileIterPaths(target_less, o.files),
                    LAMBDA filepath :
                        target_mode_keeps(filepath, ignored_dirpaths, ignored_dirs))))
    ELSE IF mode = "referenced"
    THEN Ok(SortStr(SelectSeq(FileIterPaths(target_files(self, o), o.files),
                              plist_or_header)))
    ELSE IF mode = "unreferenced"
    THEN Ok(SortStr(SelectSeq(FileIterPaths(target_less_files(self, o), o.files),
                              plist_or_header)))
    ELSE ValueError

OrphanModes == {"all", "project", "target", "referenced", "unreferenced", "orphan"}

print_orphan_files ==
    /\ pc = "idle"
    /\ \E mode \in OrphanModes,
          folder_filepaths \in {{}, {d_A_m, d_Info_plist, G_swift}},
          ignored_dirpaths \in {{}, {<<"d", "/">>}},
          ignored_dirs \in {{}, {<<"d">>}} :
        /\ xc_project' = group_files_loop(group_files_enter(xc_project)).self
        /\ result' = [query |-> "print_orphan_files",
                      arg |-> [mode |-> mode, folder_filepaths |-> folder_filepaths,
                               ignored_dirpaths |-> ignored_dirpaths,
                               ignored_dirs |-> ignored_dirs],
                      value |-> orphan_filepaths(xc_project, scan, folder_filepaths,
                                                 ignored_dirpaths, ignored_dirs, mode)]
    /\ UNCHANGED <<scan, pc, frame, run>>

OrphanReports ==
    \/ print_orphan_files
    \/ get_target_files
    \/ get_target_less_files

SpecOrphans == InitOfOrphans /\ [][OrphanReports]_vars

(***************************************************************************)
(* Targets by kind (XcProject.targets_of_type, XcProjReporter).           *)
(***************************************************************************)
\* (mutant: the targets are not filtered by kind)
targets_of_type_any(self, target_type, o) ==
    SortedByName(TargetIter(self.targets, o.targets))
targets_of_type(self, target_type, o) ==
    SortedByName(TargetIter({t \in self.targets : t.type = target_type}, o.targets))

\* What print_targets prints and what it records in self.target_type_counts.
\* A printed line is a record: the heading of a kind with its count, or a
\* target's name.  The display text of a kind is made from the kind alone and
\* stands as Some(kind).
RECURSIVE print_targets_by_type(_, _, _, _)
print_targets_by_type(self, o, types, out) ==
    IF types = <<>> THEN out
    ELSE LET target_type == Head(types)
             targets == targets_of_type(self, target_type, o)
             rest == Tail(types)
         IN  IF targets = <<>>
             THEN print_targets_by_type(self, o, rest,
                    [out EXCEPT !.target_type_counts =
                        @ @@ (target_type :> <<None, Len(targets)>>)])
             ELSE print_targets_by_type(self, o, rest,
                    [target_type_counts |->
                        out.target_type_counts @@
                            (target_type :> <<Some(target_type), Len(targets)>>),
                     lines |-> out.lines
                        \o <<[heading |-> Some(target_type), count |-> Len(targets)]>>
                        \o [i \in 1..Len(targets) |-> [name |-> targets[i].name]]])

print_targets_lines(self, o, by_type, counts) ==
    IF ~by_type
    THEN LET ts == TargetIter(self.targets, o.targets)
             target_names == SortStr([i \in 1..Len(ts) |-> ts[i].name])
         IN  [target_type_counts |-> counts,
              lines |-> [i \in 1..Len(target_names) |-> [name |-> target_names[i]]]]
    ELSE print_targets_by_type(self, o, AVAILABLES,
                               [target_type_counts |-> <<>>, lines |-> <<>>])

\* self.target_type_counts of the reporter: what the last report left of it
target_type_counts ==
    IF result.query \in {"print_targets", "print_targets_summary"}
    THEN result.value.target_type_counts ELSE <<>>

print_targets ==
    /\ pc = "idle"
    /\ \E by_type \in BOOLEAN :
        result' = [query |-> "print_targets", arg |-> by_type,
                   value |-> print_targets_lines(xc_project, scan, by_type,
                                                 target_type_counts)]
    /\ UNCHANGED <<xc_project, scan, pc, frame, run>>

\* the summary reads self.target_type_counts of every kind: there is none to
\* read before print_targets(by_type=True) has run
print_targets_summary ==
    /\ pc = "idle"
    /\ DOMAIN target_type_counts = Range(AVAILABLES)
    /\ LET counted == SelectSeq(AVAILABLES, LAMBDA k : target_type_counts[k][2] # 0)
       IN  result' = [query |-> "print_targets_summary", arg |-> "None",
                      value |-> [target_type_counts |-> target_type_counts,
                                 lines |-> [i \in 1..Len(counted) |->
                                              [heading |-> target_type_counts[counted[i]][1],
                                               count |-> target_type_counts[counted[i]][2]]]
                                           \o <<[total |-> Cardinality(xc_project.targets)]>>]]
    /\ UNCHANGED <<xc_project, scan, pc, frame, run>>

(***************************************************************************)
(* XcProjectGraphGenerator.generate_targets_dependencies_graph.  The      *)
(* Digraph is its body, the node and edge statements in the order they    *)
(* are added, and whether it has been rendered.  A missing argument is    *)
(* None; a given one is Some(text).  preview, which only has render open   *)
(* the file it wrote in a viewer, is left out.                             *)
(***************************************************************************)
Falsy(x) == IsNone(x) \/ x = Some("")

\* the checks of the arguments, in order: the message of the exception raised, or None
\* (mutant: dependency_type is not checked before the graph is made)
graph_bad_argument_type_unchecked(output_format, dependency_type, filepath, title) ==
    IF Falsy(filepath) THEN Some("Missing filepath.")
    ELSE IF Falsy(title) THEN Some("Missing title.")
    ELSE IF output_format \notin {Some("pdf"), Some("png")} THEN Some("Bad output_format")
    ELSE None
graph_bad_argument(output_format, dependency_type, filepath, title) ==
    IF Falsy(filepath) THEN Some("Missing filepath.")
    ELSE IF Falsy(title) THEN Some("Missing title.")
    ELSE IF output_format \notin {Some("pdf"), Some("png")} THEN Some("Bad output_format")
    ELSE IF dependency_type \notin {Some("build"), Some("linked"), Some("embed")}
    THEN Some("Bad dependency_type")
    ELSE None

\* the targets of the graph, sorted by name
graph_targets(self, o, including_types) ==
    SortedByName(TargetIter(IF including_types # {}
                            THEN {t \in self.targets : t.type \in including_types}
                            ELSE self.targets, o.targets))

graph_node(xcode_target) ==
    [node |-> xcode_target.name,
     style |-> IF xcode_target.type \in {TEST, UI_TEST} THEN "dotted"
               ELSE IF xcode_target.type \in {APP_EXTENSION, WATCH_EXTENSION} THEN "dashed"
               ELSE IF xcode_target.type \in {APPLICATION, WATCH_APPLICATION}
               THEN "diagonals"
               ELSE "solid"]

\* sorted(dependencies, key=lambda t: t.name) on an edge set, which holds target keys
sorted_dependencies(dependencies, o) ==
    LET keys == SelectSeq(o.targets, LAMBDA k : k \in dependencies)
    IN  SortedByName([i \in 1..Len(keys) |-> [name |-> keys[i][2], type |-> keys[i][1]]])

\* the edges added for one target
\* (mutant: the kind of the dependency is not looked at)
graph_edges_of_any_kind(xcode_target, o, dependency_type, including_types) ==
    LET dependencies ==
            IF dependency_type = Some("build") THEN xcode_target.dependencies
            ELSE IF dependency_type = Some("linked") THEN xcode_target.linked_frameworks
            ELSE xcode_target.embed_frameworks
        dependencies_target == sorted_dependencies(dependencies, o)
    IN  [i \in 1..Len(dependencies_target) |->
            [edge |-> <<xcode_target.name, dependencies_target[i].name>>]]
graph_edges_of(xcode_target, o, dependency_type, including_types) ==
    LET dependencies ==
            IF dependency_type = Some("build") THEN xcode_target.dependencies
            ELSE IF dependency_type = Some("linked") THEN xcode_target.linked_frameworks
            ELSE xcode_target.embed_frameworks
        dependencies_target == sorted_dependencies(dependencies, o)
        kept == SelectSeq(dependencies_target,
                          LAMBDA d : ~(including_types # {} /\ d.type \notin including_types))
    IN  [i \in 1..Len(kept) |-> [edge |-> <<xcode_target.name, kept[i].name>>]]

\* What a call leaves: the exception it raised or None, the graph's body, the
\* file it rendered or None, whether it printed the graph's source, and what it
\* returned.
generate_graph(self, o, a) ==
    LET bad == graph_bad_argument(a.output_format, a.dependency_type, a.filepath, a.title)
        targets == graph_targets(self, o, a.including_types)
        nodes == [i \in 1..Len(targets) |-> graph_node(targets[i])]
        supported == a.dependency_type \in {Some("build"), Some("linked"), Some("embed")}
        edges == Flatten([i \in 1..Len(targets) |->
                    graph_edges_of(targets[i], o, a.dependency_type, a.including_types)])
    IN  IF ~IsNone(bad)
        THEN [raised |-> bad, body |-> <<>>, rendered |-> None, printed |-> FALSE,
              returned |-> None]
        ELSE IF ~supported /\ targets # <<>>
        THEN [raised |-> Some("Dependency type not supported."), body |-> nodes,
              rendered |-> None, printed |-> FALSE, returned |-> None]
        ELSE [raised |-> None,
              body |-> nodes \o (IF supported THEN edges ELSE <<>>),
              rendered |-> Some([filename |-> Val(a.filepath),
                                 format |-> Val(a.output_format)]),
              printed |-> a.display_graph_source,
              returned |-> Some(TRUE)]

GraphArguments ==
    [output_format : {Some("pdf"), Some("png"), Some("svg")},
     dependency_type : {None, Some("build"), Some("linked"), Some("embed"), Some("framework")},
     display_graph_source : BOOLEAN,
     filepath : {Some(""), Some("graph")},
     title : {None, Some("Targets")},
     including_types : {{}, {FRAMEWORK, TEST}}]

generate_targets_dependencies_graph ==
    /\ pc = "idle"
    /\ \E a \in GraphArguments :
        result' = [query |-> "generate_targets_dependencies_graph", arg |-> a,
                   value |-> generate_graph(xc_project, scan, a)]
    /\ UNCHANGED <<xc_project, scan, pc, frame, run>>

TargetReports ==
    \/ print_targets
    \/ print_targets_summary

SpecTargets == InitOfTargets /\ [][TargetReports]_vars

\* The graphs are drawn of the projects with an application that builds every
\* framework and library of the project and a test target that builds the
\* application.
InitOfGraph ==
    /\ InitOfTargets
    /\ \E app \in xc_project.targets, test \in xc_project.targets :
            /\ app.type = APPLICATION
            /\ test.type = TEST
            /\ \A t \in xc_project.targets :
                    t.type \in {FRAMEWORK, OTHER_TYPE} => <<t.type, t.name>> \in app.dependencies
            /\ <<APPLICATION, App>> \in test.dependencies
GraphReports == generate_targets_dependencies_graph
SpecGraph == InitOfGraph /\ [][GraphReports]_vars

(***************************************************************************)
(* find-dead-types.py: one run of the script.  pc is the statement the    *)
(* run is at; the parser's stages are not part of the model's sources and *)
(* are described by what they leave behind: a project, declaration lists. *)
(***************************************************************************)
NoProject == XcProject({}, <<>>, {}, <<>>)

\* the projects load may build: App owns F.swift, G.swift is owned by App, by Kit
\* or by no target, H.h is a header of App, a root file or absent
LoadedProjects ==
    {XcProject({XcTarget(App, APPLICATION, {}, {}, {},
                         {XcFile(F_swift)} \cup (IF g_owner = "App" THEN {XcFile(G_swift)} ELSE {}),
                         {}, IF h_place = "header" THEN {XcFile(H_h)} ELSE {}, {}),
                XcTarget(Kit, FRAMEWORK, {}, {}, {},
                         IF g_owner = "Kit" THEN {XcFile(G_swift)} ELSE {}, {}, {}, {})},
               <<>>, IF h_place = "root" THEN {XcFile(H_h)} ELSE {}, <<>>) :
        g_owner \in {"nobody", "App", "Kit"}, h_place \in {"absent", "header", "root"}}

\* the project with Each(f) in the place of every file f
MapFiles(p, Each(_)) ==
    [targets |-> {[t EXCEPT !.source_files = {Each(f) : f \in t.source_files},
                            !.resource_files = {Each(f) : f \in t.resource_files},
                            !.header_files = {Each(f) : f \in t.header_files},
                            !.linked_files = {Each(f) : f \in t.linked_files}] :
                    t \in p.targets},
     groups |-> p.groups,
     root_files |-> {Each(f) : f \in p.root_files},
     objects |-> [id \in DOMAIN p.objects |->
                    [p.objects[id] EXCEPT !.files = {Each(f) : f \in p.objects[id].files}]]]

target_with_name(self, name, o) ==
    LET candidates == SelectSeq(TargetIter(self.targets, o.targets), LAMBDA t : t.name = name)
    IN  IF candidates = <<>> THEN None ELSE Some(candidates[1])

ErrorLine == "An error occurred when loading Xcode project"

Returned(call) == [run EXCEPT !.calls = Append(@, call)]

\* a stage of the try block returns, or raises XcodeProjectReadException
load ==
    /\ pc = "load"
    /\ \/ \E project \in LoadedProjects :
            /\ xc_project' = project
            /\ run' = Returned("load")
            /\ pc' = "parse_swift_files"
       \/ /\ pc' = "except"
          /\ UNCHANGED <<xc_project, run>>
    /\ UNCHANGED <<scan, frame, result>>

parse_swift_files ==
    /\ pc = "parse_swift_files"
    /\ \/ \E found \in BSeq(SwiftFound, MaxOther) :
            LET parsed(f) == IF EndsWith(f.filepath, <<".", "s", "w", "i", "f", "t">>)
                             THEN [f EXCEPT !.swift_types = Parsed(f.filepath, found)]
                             ELSE f
            IN  /\ xc_project' = MapFiles(xc_project, parsed)
                /\ run' = Returned("parse_swift_files")
                /\ pc' = "parse_objc_files"
       \/ /\ pc' = "except"
          /\ UNCHANGED <<xc_project, run>>
    /\ UNCHANGED <<scan, frame, result>>

parse_objc_files ==
    /\ pc = "parse_objc_files"
    /\ \/ \E found \in BSeq(ObjcFound, MaxOther) :
            LET parsed(f) == IF EndsWith(f.filepath, <<".", "h">>)
                                \/ EndsWith(f.filepath, <<".", "m">>)
                             THEN [f EXCEPT !.objc_types = Parsed(f.filepath, found)]
                             ELSE f
            IN  /\ xc_project' = MapFiles(xc_project, parsed)
                /\ run' = Returned("parse_objc_files")
                /\ pc' = "target_with_name"
       \/ /\ pc' = "except"
          /\ UNCHANGED <<xc_project, run>>
    /\ UNCHANGED <<scan, frame, result>>

\* except XcodeProjectReadException: print(...); exit()
\* (mutant: without exit() the script goes on below the try statement)
except_handler_no_exit(r) ==
    [pc |-> "target_with_name", run |-> [r EXCEPT !.stdout = Append(@, ErrorLine)]]
except_handler(r) ==
    [pc |-> "exited", run |-> [r EXCEPT !.stdout = Append(@, ErrorLine)]]

except_XcodeProjectReadException ==
    /\ pc = "except"
    /\ pc' = except_handler(run).pc
    /\ run' = except_handler(run).run
    /\ UNCHANGED <<xc_project, scan, frame, result>>

\* app_target = ...target_with_name(args.app); ValueError when there is none
app_target ==
    /\ pc = "target_with_name"
    /\ run' = Returned("target_with_name")
    /\ pc' = IF IsNone(target_with_name(xc_project, run.app, scan))
             THEN "raised" ELSE "find_occurrences_of"
    /\ UNCHANGED <<xc_project, scan, frame, result>>

\* the candidates are the declarations of the app target's Swift files that are
\* not extensions; target_less_h_files is read for the files to scan besides
find_occurrences_of ==
    /\ pc = "find_occurrences_of"
    /\ LET target == Val(target_with_name(xc_project, run.app, scan))
           swift_fs == FileIter(XcTarget_swift_files(target), scan.files)
           found == [i \in 1..Len(swift_fs) |->
                        XcFile_swift_types_filtered(swift_fs[i], {EXTENSION})]
           candidates == Flatten([i \in 1..Len(found) |-> found[i].value])
       IN  IF \E i \in 1..Len(found) : found[i].raised
           THEN pc' = "raised" /\ UNCHANGED <<result, run>>
           ELSE /\ result' = [query |-> "find_occurrences_of", arg |-> run.app,
                              value |-> [candidates |-> candidates,
                                         and_other_source_files |->
                                            target_less_h_files(xc_project, scan)]]
                /\ run' = Returned("find_occurrences_of")
                /\ pc' = "print_type_occurrences_multiple_types"
    /\ UNCHANGED <<xc_project, scan, frame>>

print_type_occurrences_multiple_types ==
    /\ pc = "print_type_occurrences_multiple_types"
    /\ run' = [Returned("print_type_occurrences_multiple_types") EXCEPT
                    !.stdout = Append(@, "occurrences")]
    /\ pc' = "done"
    /\ UNCHANGED <<xc_project, scan, frame, result>>

Script ==
    \/ load
    \/ parse_swift_files
    \/ parse_objc_files
    \/ except_XcodeProjectReadException
    \/ app_target
    \/ find_occurrences_of
    \/ print_type_occurrences_multiple_types

InitOfScript ==
    /\ xc_project = NoProject
    /\ scan \in ProcessOrders
    /\ pc = "load"
    /\ frame = NoFrame
    /\ result = NoResult
    /\ run \in {[NoRun EXCEPT !.app = app] : app \in {App, Kit, Lib}}

SpecDeadTypes == InitOfScript /\ [][Script]_vars

StageOrder ==
    <<"load", "parse_swift_files", "parse_objc_files", "target_with_name",
      "find_occurrences_of", "print_type_occurrences_multiple_types">>
StageOf(stage) == CHOOSE i \in 1..Len(StageOrder) : StageOrder[i] = stage

\* C13: the calls of a run return in the order load, parse_swift_files,
\* parse_objc_files, target_with_name, find_occurrences_of, print, a stage being
\* at work only when all the stages before it have returned; once the error line
\* is printed the run has ended, it has printed nothing else, and no target was
\* looked up, no occurrence searched and none printed.
C13_StagesInOrderErrorEndsRun ==
    /\ run.calls = SubSeq(StageOrder, 1, Len(run.calls))
    /\ pc \in Range(StageOrder) => Len(run.calls) = StageOf(pc) - 1
    /\ pc = "done" => run.calls = StageOrder
    /\ ErrorLine \in Range(run.stdout) =>
            /\ pc = "exited"
            /\ run.stdout = <<ErrorLine>>
            /\ result = NoResult
            /\ Range(run.calls) \cap {"target_with_name", "find_occurrences_of",
                                       "print_type_occurrences_multiple_types"} = {}
    /\ pc = "exited" => ErrorLine \in Range(run.stdout)

\* C13 witness: a run has ended on the error of parse_objc_files
C13_Witness ==
    /\ pc = "exited"
    /\ run.calls = <<"load", "parse_swift_files">>
    /\ run.stdout = <<ErrorLine>>

\* C13 witness: a run has printed the occurrences
C13_WitnessDone ==
    /\ pc = "done"
    /\ result.value.candidates # <<>>

(***************************************************************************)
(* Identity.                                                               *)
(***************************************************************************)
\* every XcFile object the project holds
FileObjects(p) ==
    UNION ({p.root_files} \cup {p.objects[id].files : id \in DOMAIN p.objects}
           \cup {t.source_files \cup t.resource_files \cup t.header_files
                 \cup t.linked_files : t \in p.targets})
OnePerPath(S) == \A a, b \in S : a.filepath = b.filepath => a = b
FileSetQueries == {"files", "target_files", "target_less_files", "objc_files"}

\* C11: file objects are equal exactly when their paths are, groups when their
\* group paths are, targets when kind and name both are; no file set that a query
\* returns and no target's files hold two entries of one path; two targets of one
\* name and different kinds are both listed among the project's targets.
C11_IdentityByKey ==
    /\ \A a, b \in FileObjects(xc_project) :
            XcFile_eq(a, b) <=> a.filepath = b.filepath
    /\ \A g, h \in DOMAIN xc_project.objects :
            XcGroup_eq(xc_project.objects[g], xc_project.objects[h])
                <=> xc_project.objects[g].group_path = xc_project.objects[h].group_path
    /\ \A t, u \in xc_project.targets :
            /\ TargetEq(t, u) <=> (t.type = u.type /\ t.name = u.name)
            /\ (t.name = u.name /\ t.type # u.type) =>
                   /\ ~TargetEq(t, u)
                   /\ {t, u} \subseteq Range(targets_sorted_by_name(xc_project, scan))
    /\ \A t \in xc_project.targets : OnePerPath(XcTarget_files(t))
    /\ result.query \in FileSetQueries => OnePerPath(result.value)

\* C11 witness: target_files has returned one entry for F.swift on a project whose
\* two targets have one name and hold two different objects of that path
C11_Witness ==
    /\ result.query = "target_files"
    /\ \E f \in result.value : f.filepath = F_swift
    /\ \E t, u \in xc_project.targets :
            /\ t.name = u.name /\ t.type # u.type
            /\ \E a \in t.source_files, b \in u.source_files :
                    a.filepath = b.filepath /\ a # b
            /\ \E a \in t.source_files, b \in t.resource_files : a # b

(***************************************************************************)
(* Variant groups.                                                         *)
(***************************************************************************)
\* the groups reached from the top-level groups through groups that are not variant
RECURSIVE ReachedFrom(_, _)
ReachedFrom(p, R) ==
    LET more == R \cup UNION {Range(p.objects[id].groups) :
                                 id \in {r \in R : ~p.objects[r].is_variant}}
    IN  IF more = R THEN R ELSE ReachedFrom(p, more)
Reached(p) == ReachedFrom(p, Range(p.groups))

MisplacedPairs(p) ==
    {pair \in FileObjects(p) \X DOMAIN p.objects :
        /\ pair[2] \in Reached(p)
        /\ ~p.objects[pair[2]].is_variant
        /\ pair[1] \in p.objects[pair[2]].files
        /\ ~StartsWith(pair[1].filepath, p.objects[pair[2]].group_path)}

\* C12: nonregular_files returns the pair (file, group) exactly for the groups that
\* are reached through groups that are not variant, are not variant themselves and
\* hold the file at a path that does not start with the group's path; the groups
\* that groups_filtered returns as 'variant' and as 'without_folder' are disjoint.
C12_VariantGroupsNotTraversed ==
    /\ result.query = "nonregular_files" =>
            Range(result.value) = MisplacedPairs(xc_project)
    /\ (result.query = "groups_filtered" /\ result.arg = "variant") =>
            Range(result.value) \cap
                Range(groups_filtered(xc_project, "without_folder")) = {}
    /\ (result.query = "groups_filtered" /\ result.arg = "without_folder") =>
            Range(result.value) \cap Range(groups_filtered(xc_project, "variant")) = {}

\* C12 witness: nonregular_files has returned (e/A.m, g1) and nothing of g3, which
\* holds d/B.m under path x and is the child of the variant group g2 only
C12_Witness ==
    /\ result.query = "nonregular_files"
    /\ xc_project.groups = <<"g1">>
    /\ xc_project.objects["g1"].groups = <<"g2">>
    /\ xc_project.objects["g2"].groups = <<"g3">>
    /\ xc_project.objects["g2"].is_variant
    /\ xc_project.objects["g3"].files # {}
    /\ \E pair \in Range(result.value) : pair[2] = "g1"

\* C12 witness: groups_filtered has returned a variant group without folder
C12_WitnessVariant ==
    /\ result.query = "groups_filtered"
    /\ result.arg = "variant"
    /\ \E id \in Range(result.value) : ~has_folder(xc_project.objects[id])

(***************************************************************************)
(* Targets by kind.                                                        *)
(***************************************************************************)
RECURSIVE Sum(_, _)
Sum(f, S) == IF S = {} THEN 0 ELSE LET x == CHOOSE y \in S : TRUE IN f[x] + Sum(f, S \ {x})

\* C14: targets_of_type(k) lists exactly the targets of kind k, each once, in
\* ascending name order; over the kinds of AVAILABLES the lists are disjoint and
\* hold every target, and the counts print_targets(by_type=True) records sum to the
\* number of targets.
C14_TargetsByKind ==
    /\ \A k \in Range(AVAILABLES) :
        LET listed == targets_of_type(xc_project, k, scan)
        IN  /\ Range(listed) = {t \in xc_project.targets : t.type = k}
            /\ Len(listed) = Cardinality(Range(listed))
            /\ \A i \in 1..Len(listed) - 1 : StrLt(listed[i].name, listed[i + 1].name)
    /\ \A k, l \in Range(AVAILABLES) :
            k # l => Range(targets_of_type(xc_project, k, scan))
                        \cap Range(targets_of_type(xc_project, l, scan)) = {}
    /\ UNION {Range(targets_of_type(xc_project, k, scan)) : k \in Range(AVAILABLES)}
            = xc_project.targets
    /\ (result.query = "print_targets" /\ result.arg = TRUE) =>
            /\ DOMAIN result.value.target_type_counts = Range(AVAILABLES)
            /\ Sum([k \in Range(AVAILABLES) |-> result.value.target_type_counts[k][2]],
                   Range(AVAILABLES)) = Cardinality(xc_project.targets)

\* C14 witness: print_targets(by_type=True) has counted two frameworks, an
\* application of the name of one of them, a test and an other target
C14_Witness ==
    /\ result.query = "print_targets"
    /\ result.arg = TRUE
    /\ result.value.target_type_counts[FRAMEWORK][2] = 2
    /\ result.value.target_type_counts[APPLICATION][2] = 1
    /\ Cardinality(xc_project.targets) = 5

(***************************************************************************)
(* All groups.                                                             *)
(***************************************************************************)
RECURSIVE DescendantsFrom(_, _)
DescendantsFrom(p, R) ==
    LET more == R \cup UNION {Range(p.objects[id].groups) : id \in R}
    IN  IF more = R THEN R ELSE DescendantsFrom(p, more)
AllGroups(p) == DescendantsFrom(p, Range(p.groups))

\* every group is named once in all by the top-level list and the child lists
IsTree(p) ==
    LET times(list, id) == Cardinality({i \in 1..Len(list) : list[i] = id})
    IN  \A id \in DOMAIN p.objects :
            times(p.groups, id)
                + Sum([h \in DOMAIN p.objects |-> times(p.objects[h].groups, id)],
                      DOMAIN p.objects) <= 1

\* C15: on a group tree, groups_filtered without a filter mode returns every group
\* reachable from the top-level groups exactly once, in ascending order of group
\* path.
C15_AllGroupsOnceSortedByPath ==
    (result.query = "groups_filtered" /\ result.arg = "None" /\ IsTree(xc_project)) =>
        /\ Range(result.value) = AllGroups(xc_project)
        /\ Len(result.value) = Cardinality(AllGroups(xc_project))
        /\ \A i \in 1..Len(result.value) - 1 :
                StrLt(xc_project.objects[result.value[i]].group_path,
                      xc_project.objects[result.value[i + 1]].group_path)

\* the part of C15 that the traversal fulfils: every group once, in some order
AllGroupsOnce ==
    (result.query = "groups_filtered" /\ result.arg = "None" /\ IsTree(xc_project)) =>
        /\ Range(result.value) = AllGroups(xc_project)
        /\ Len(result.value) = Cardinality(AllGroups(xc_project))

(***************************************************************************)
(* Objective-C files.                                                      *)
(***************************************************************************)
IsH(path) == EndsWith(path, <<".", "h">>)
IsM(path) == EndsWith(path, <<".", "m">>)
InAnyBucket(p, path) ==
    \E t \in p.targets :
        path \in Paths(t.source_files \cup t.resource_files \cup t.header_files
                       \cup t.linked_files)
ProjectPaths(p) ==
    Paths(p.root_files) \cup UNION {Paths(p.objects[id].files) : id \in AllGroups(p)}

\* C16: a path is among objc_files exactly when it is a .h of some target's header
\* bucket, a .m of some target's source bucket, or a .h among the project's files
\* that no target owns; target_less_h_files is within objc_files and shares no path
\* with target_files.
C16_ObjcFilesUnion ==
    /\ result.query = "objc_files" =>
        Paths(result.value) =
            {path \in Range(PathOrder) :
                \/ IsH(path) /\ \E t \in xc_project.targets : path \in Paths(t.header_files)
                \/ IsM(path) /\ \E t \in xc_project.targets : path \in Paths(t.source_files)
                \/ IsH(path) /\ path \in ProjectPaths(xc_project)
                             /\ ~InAnyBucket(xc_project, path)}
    /\ Paths(target_less_h_files(xc_project, scan)) \subseteq Paths(objc_files(xc_project, scan))
    /\ Paths(target_less_h_files(xc_project, scan))
            \cap Paths(target_files(xc_project, scan)) = {}

\* C16 witness: objc_files has returned d/A.m, which is in a source bucket, and
\* d/B.h, which is a file of the group that no target owns
C16_Witness ==
    /\ result.query = "objc_files"
    /\ Paths(result.value) = {d_A_m, d_B_h}
    /\ ~InAnyBucket(xc_project, d_B_h)
    /\ d_B_h \in Paths(xc_project.objects["g1"].files)

\* C16 witness: objc_files has returned without d/B.h, a header that only a source
\* bucket holds
C16_WitnessHeaderInSources ==
    /\ result.query = "objc_files"
    /\ d_B_h \notin Paths(result.value)
    /\ InAnyBucket(xc_project, d_B_h)

(***************************************************************************)
(* Swift declarations by kind.                                             *)
(***************************************************************************)
SwiftInventoried(self, o) == \A f \in swift_files(self, o) : ~IsNone(f.swift_types)
SwiftDeclarations(self, o) ==
    UNION {Range(Val(f.swift_types)) : f \in swift_files(self, o)}
OnceIf(seq, d, selected) == Count(seq, d) = IF selected THEN 1 ELSE 0

\* C17: with declarations attached to every Swift file, swift_types_filtered selects
\* ALL minus type_not_in when type_not_in is not empty and type_in otherwise; the
\* grouped result has the selected kinds as its keys and holds under each kind the
\* declarations of that kind of the targets' Swift files, each once, and nothing
\* else; the flat result holds the same declarations, each once, in one list.
C17_SelectedKindsGrouped ==
    (result.query = "swift_types_filtered" /\ SwiftInventoried(xc_project, scan)) =>
        LET selected == IF result.arg.type_not_in # {}
                        THEN SwiftTypeType_ALL \ result.arg.type_not_in
                        ELSE result.arg.type_in
            declared == SwiftDeclarations(xc_project, scan)
            returned == result.value.value
        IN  /\ ~result.value.raised
            /\ ~result.arg.flat =>
                /\ DOMAIN returned = selected
                /\ \A k \in selected :
                    /\ Range(returned[k]) \subseteq declared
                    /\ \A d \in declared : OnceIf(returned[k], d, d.type_identifier = k)
            /\ result.arg.flat =>
                /\ Range(returned) \subseteq declared
                /\ \A d \in declared : OnceIf(returned, d, d.type_identifier \in selected)

\* C17 witness: the flat list of the kinds other than struct and extension has been
\* returned, type_in naming the class kind alone, on a project whose files declare
\* a class and an extension, one of them in a file that two targets own
C17_Witness ==
    /\ result.query = "swift_types_filtered"
    /\ SwiftInventoried(xc_project, scan)
    /\ result.arg = [type_in |-> {"class"}, type_not_in |-> {"struct", EXTENSION},
                     flat |-> TRUE]
    /\ result.value.value # <<>>
    /\ \E d \in SwiftDeclarations(xc_project, scan) : d.type_identifier = EXTENSION
    /\ \E f \in swift_files(xc_project, scan) :
            \A t \in xc_project.targets : FileIn(f, t.source_files)

\* C17 witness: the grouped result of all kinds has been returned with a class and
\* an extension in it
C17_WitnessGrouped ==
    /\ result.query = "swift_types_filtered"
    /\ SwiftInventoried(xc_project, scan)
    /\ ~result.arg.flat
    /\ result.arg.type_not_in = {}
    /\ result.arg.type_in = SwiftTypeType_ALL
    /\ result.value.value["class"] # <<>>
    /\ result.value.value[EXTENSION] # <<>>

(***************************************************************************)
(* Orphan files.                                                           *)
(***************************************************************************)
OrphansOf(mode) == orphan_filepaths(xc_project, scan, {}, {}, {}, mode).value
PlistOrHeaderPaths(S) ==
    {path \in Paths(S) : EndsWith(path, Info_plist) \/ EndsWith(path, <<".", "h">>)}
Printed(mode) ==
    /\ result.query = "print_orphan_files"
    /\ result.arg.mode = mode
    /\ result.arg.ignored_dirpaths = {}
    /\ result.arg.ignored_dirs = {}
NoRepeat(seq) == Len(seq) = Cardinality(Range(seq))

\* C18: with nothing ignored, mode 'unreferenced' prints the paths of the target-less
\* files that end with Info.plist or .h, mode 'target' the paths of the other
\* target-less files, the two share no path and together are the paths of
\* target_less_files; mode 'referenced' prints the paths of the target-owned files
\* that end with Info.plist or .h and shares no path with 'unreferenced'.
C18_OrphanModesPartition ==
    LET target_less == Paths(target_less_files(xc_project, scan))
    IN  /\ Printed("unreferenced") =>
            /\ NoRepeat(result.value.value)
            /\ Range(result.value.value) = PlistOrHeaderPaths(target_less_files(xc_project, scan))
            /\ Range(result.value.value) \cap Range(OrphansOf("target")) = {}
            /\ Range(result.value.value) \cup Range(OrphansOf("target")) = target_less
            /\ Range(result.value.value) \cap Range(OrphansOf("referenced")) = {}
        /\ Printed("target") =>
            /\ NoRepeat(result.value.value)
            /\ Range(result.value.value) =
                    target_less \ PlistOrHeaderPaths(target_less_files(xc_project, scan))
            /\ Range(result.value.value) \cap Range(OrphansOf("unreferenced")) = {}
            /\ Range(result.value.value) \cup Range(OrphansOf("unreferenced")) = target_less
        /\ Printed("referenced") =>
            /\ NoRepeat(result.value.value)
            /\ Range(result.value.value) = PlistOrHeaderPaths(target_files(xc_project, scan))
            /\ Range(result.value.value) \cap Range(OrphansOf("unreferenced")) = {}

\* C18 witness: mode 'target' has printed d/A.m on a project whose target-less files
\* are d/A.m and d/B.h and whose target owns d/Info.plist
C18_Witness ==
    /\ Printed("target")
    /\ result.value.value = <<d_A_m>>
    /\ Paths(target_less_files(xc_project, scan)) = {d_A_m, d_B_h}
    /\ OrphansOf("referenced") = <<d_Info_plist>>

(***************************************************************************)
(* The graph of the targets.                                               *)
(***************************************************************************)
Generated == result.query = "generate_targets_dependencies_graph"
Drawn == Generated /\ IsNone(result.value.raised)
NodesOf(body) == SelectSeq(body, LAMBDA st : "node" \in DOMAIN st)
EdgesOf(body) == SelectSeq(body, LAMBDA st : "edge" \in DOMAIN st)
Selected(p, including_types) ==
    {t \in p.targets : including_types = {} \/ t.type \in including_types}
EdgeKeys(t, dependency_type) ==
    CASE dependency_type = Some("build") -> t.dependencies
      [] dependency_type = Some("linked") -> t.linked_frameworks
      [] dependency_type = Some("embed") -> t.embed_frameworks
\* the names of the dependencies of t that the graph shows, in ascending order
ShownDependencies(t, a) ==
    LET shown == {k \in EdgeKeys(t, a.dependency_type) :
                      a.including_types = {} \/ k[1] \in a.including_types}
        names == {k[2] : k \in shown}
        sorted == SortedList(names)
    IN  Flatten([i \in 1..Len(sorted) |->
            [j \in 1..Cardinality({k \in shown : k[2] = sorted[i]}) |-> sorted[i]]])

\* C19: the graph's body is one node per selected target, in ascending name order,
\* followed by the edges, node by node in the same order: for each selected target
\* an edge to each member of its edge set of the requested kind whose kind is
\* included (or any, if no kinds are given), in ascending order of name.
C19_NodesThenEdgesSelected ==
    Drawn =>
        LET a == result.arg
            body == result.value.body
            nodes == NodesOf(body)
            edges == EdgesOf(body)
            order == graph_targets(xc_project, scan, a.including_types)
        IN  /\ body = nodes \o edges
            /\ Range(order) = Selected(xc_project, a.including_types)
            /\ Len(order) = Cardinality(Selected(xc_project, a.including_types))
            /\ \A i \in 1..Len(order) - 1 : ~StrLt(order[i + 1].name, order[i].name)
            /\ [i \in 1..Len(nodes) |-> nodes[i].node] = [i \in 1..Len(order) |-> order[i].name]
            /\ [i \in 1..Len(edges) |-> edges[i].edge] =
                    Flatten([i \in 1..Len(order) |->
                        LET to == ShownDependencies(order[i], a)
                        IN  [j \in 1..Len(to) |-> <<order[i].name, to[j]>>]])

\* C19 witness: the build graph of the frameworks and tests has been drawn with the
\* two frameworks and the test target as nodes and the one edge from the test target
\* to a framework, on a project whose application, left out, depends on both
C19_Witness ==
    /\ Drawn
    /\ result.arg.dependency_type = Some("build")
    /\ result.arg.including_types = {FRAMEWORK, TEST}
    /\ Len(NodesOf(result.value.body)) = 3
    /\ Len(EdgesOf(result.value.body)) = 1
    /\ \E t \in xc_project.targets :
            {<<FRAMEWORK, Kit>>, <<FRAMEWORK, App>>} \subseteq t.dependencies

\* C19 witness: the build graph of all targets has been drawn with five nodes and
\* five edges, two of them of the test target
C19_WitnessAll ==
    /\ Drawn
    /\ result.arg.dependency_type = Some("build")
    /\ result.arg.including_types = {}
    /\ Len(NodesOf(result.value.body)) = 5
    /\ Len(EdgesOf(result.value.body)) = 5

====
